---- MODULE Spec2Model ----
(***************************************************************************)
(* File orchestrator: the synchronization engine (src/sync/mod.rs), its    *)
(* state store (src/state/mod.rs), the drive detector (src/drive/mod.rs),  *)
(* the classifier (src/classifier/mod.rs) and the configuration            *)
(* (src/config/mod.rs).  Strings and paths are sequences of one-character  *)
(* strings, so that to_lowercase, contains, join and strip_prefix are       *)
(* computed as the code computes them.                                      *)
(***************************************************************************)
EXTENDS Integers, Sequences, FiniteSets, TLC

(***************************************************************************)
(* Bounds of the model.                                                    *)
(***************************************************************************)
\* Number of distinct byte contents a source file can take.
NumContents == 2
\* Number of I/O or store failures the environment may inject (FaultSpec).
MaxFaults == 1
\* Number of file changes notify reports during a run of cmd_run (LoopSpec).
MaxEvents == 2

(***************************************************************************)
(* Strings.                                                                *)
(***************************************************************************)
UpperChars == <<"A","B","C","D","E","F","G","H","I","J","K","L","M",
                "N","O","P","Q","R","S","T","U","V","W","X","Y","Z">>
LowerChars == <<"a","b","c","d","e","f","g","h","i","j","k","l","m",
                "n","o","p","q","r","s","t","u","v","w","x","y","z">>

to_lowercase_char(c) ==
    IF \E i \in DOMAIN UpperChars : UpperChars[i] = c
    THEN LowerChars[CHOOSE i \in DOMAIN UpperChars : UpperChars[i] = c]
    ELSE c

to_lowercase(s) == [i \in DOMAIN s |-> to_lowercase_char(s[i])]

\* The characters in use, in byte order (sled orders keys bytewise).
ByteOrder == <<".", "/", "0", "1", "2", "3", "4", "5", "6", "7", "8", "9", ":">>
                \o UpperChars \o LowerChars
byte(c) == CHOOSE i \in DOMAIN ByteOrder : ByteOrder[i] = c

RECURSIVE bytes_less(_, _)
bytes_less(a, b) ==
    IF b = <<>> THEN FALSE
    ELSE IF a = <<>> THEN TRUE
    ELSE IF Head(a) # Head(b) THEN byte(Head(a)) < byte(Head(b))
    ELSE bytes_less(Tail(a), Tail(b))

is_prefix(prefix, s) == Len(s) >= Len(prefix) /\ SubSeq(s, 1, Len(prefix)) = prefix

contains(haystack, needle) ==
    \E i \in 0..(Len(haystack) - Len(needle)) :
        SubSeq(haystack, i + 1, i + Len(needle)) = needle

(***************************************************************************)
(* Paths (std::path).                                                      *)
(***************************************************************************)
is_absolute(p) == Len(p) > 0 /\ p[1] = "/"

\* PathBuf::join: an absolute argument replaces the base.
join(base, p) == IF is_absolute(p) THEN p ELSE base \o <<"/">> \o p

\* Path::starts_with, component-wise.
starts_with(p, base) ==
    /\ Len(p) >= Len(base)
    /\ SubSeq(p, 1, Len(base)) = base
    /\ (Len(p) = Len(base) \/ p[Len(base) + 1] = "/")

\* Path::strip_prefix(base).unwrap_or(p)
strip_prefix_or(p, base) ==
    IF starts_with(p, base) /\ Len(p) > Len(base)
    THEN SubSeq(p, Len(base) + 2, Len(p))
    ELSE p

\* Path::extension: the text after the last dot of the file name, if any.
HasDot(p) == \E i \in DOMAIN p : p[i] = "."
LastDot(p) == CHOOSE i \in DOMAIN p : p[i] = "." /\ \A j \in DOMAIN p : p[j] = "." => j <= i
extension(p) == IF HasDot(p) THEN SubSeq(p, LastDot(p) + 1, Len(p)) ELSE <<>>

(***************************************************************************)
(* Classification (src/classifier/mod.rs).  The files of the model carry   *)
(* no signature that classify_by_content recognises, so get_file_info      *)
(* classifies them by extension (the fallback of line 59).                 *)
(***************************************************************************)
Images    == <<"i","m","a","g","e","s">>
Videos    == <<"v","i","d","e","o","s">>
Documents == <<"d","o","c","u","m","e","n","t","s">>
Unknown   == <<"u","n","k","n","o","w","n">>

classify_by_extension(p) ==
    LET e == to_lowercase(extension(p)) IN
    CASE e = <<"j","p","g">> -> Images
      [] e = <<"p","n","g">> -> Images
      [] e = <<"m","p","4">> -> Videos
      [] e = <<"p","d","f">> -> Documents
      [] OTHER -> Unknown

(***************************************************************************)
(* Configuration (src/config/mod.rs).                                      *)
(***************************************************************************)
NoPath == <<>>
SourceRoot == <<"/","s">>

\* The keys of config.drives, strings as the labels are.
DriveImg == <<"u","u","i","d","-","i","m","g">>
DriveVid == <<"u","u","i","d","-","v","i","d">>

ConfigDrives ==
    [u \in {DriveImg, DriveVid} |->
        IF u = DriveImg
        THEN [label |-> <<"I","m","g">>, target |-> Images, path |-> <<"/","m","1">>]
        ELSE [label |-> <<"V","i","d">>, target |-> Videos, path |-> NoPath]]

DriveIds == DOMAIN ConfigDrives

\* Config::find_drive_for_category: the configured key, or "" when there is none.
NoDrive == <<>>
\* A configuration in which the images' drive takes what has no drive.
find_drive_for_category_or_images(category) ==
    IF \E u \in DriveIds : ConfigDrives[u].target = category
    THEN CHOOSE u \in DriveIds : ConfigDrives[u].target = category
    ELSE DriveImg
find_drive_for_category(category) ==
    IF \E u \in DriveIds : ConfigDrives[u].target = category
    THEN CHOOSE u \in DriveIds : ConfigDrives[u].target = category
    ELSE NoDrive

(***************************************************************************)
(* The file system and the devices.                                        *)
(***************************************************************************)
P_jpg == <<"/","s","/","a",".","j","p","g">>
P_mp4 == <<"/","s","/","b",".","m","p","4">>
P_xyz == <<"/","s","/","n",".","x","y","z">>
P_pdf == <<"/","s","/","d",".","p","d","f">>
P_png == <<"/","s","/","c",".","p","n","g">>
\* A file outside the source directory.
P_out == <<"/","o","/","e",".","j","p","g">>
\* P_jpg as named from the working directory "/".
P_rel == <<"s","/","a",".","j","p","g">>

\* The files, under their absolute names.
Paths == {P_jpg, P_mp4, P_xyz, P_pdf, P_png, P_out}
\* The names sync_file may be given.
Spellings == Paths \cup {P_rel}
\* The file a name stands for, the working directory being "/".
resolve(p) == IF is_absolute(p) THEN p ELSE <<"/">> \o p
\* The files present at the start, but for the specifications that say otherwise.
StartPaths == Paths \ {P_png, P_out}
\* The environment rewrites, deletes and recreates one source file and leaves
\* the others in place: a second routed file, one of unknown type and one whose
\* category has no drive.
VolatilePaths == {P_jpg}

Absent == 0
Contents == 1..NumContents
\* The bytes of a file that was truncated.
Empty == -1

\* calculate_file_hash: BLAKE3 of the bytes; distinct contents, distinct digests.
calculate_file_hash(c) == <<"blake3", c>>
NoHash == <<"blake3", Absent>>
\* fs::metadata(path).len()
FileSize(c) == IF c = Empty THEN 0 ELSE c

DiskImg == [name |-> <<"U","S","B","1">>, mount_point |-> <<"/","m","1">>]
DiskVid == [name |-> <<"M","y","V","I","D">>, mount_point |-> <<"/","m","2">>]
\* A disk that is no drive of the configuration.
DiskAux == [name |-> <<"D","A","T","A">>, mount_point |-> <<"/","v","i","d">>]
AllDisks == {DiskImg, DiskVid, DiskAux}

\* Disks::refresh_list: the attached disks, in an order the OS chooses.
RECURSIVE Enumerations(_)
Enumerations(S) ==
    IF S = {} THEN {<<>>}
    ELSE UNION {{<<d>> \o rest : rest \in Enumerations(S \ {d})} : d \in S}

\* A detector whose list, empty when it was made, is never read again.
refresh_never(attached) == {<<>>}
\* DriveDetector::refresh (drive/mod.rs lines 29-31): the list is rebuilt from
\* the disks attached now.
refresh(attached) == Enumerations(attached)

(***************************************************************************)
(* State store (src/state/mod.rs): one sled tree, keys "file:<path>" and   *)
(* "pending:<path>".  The tree is a function from the keys it holds.        *)
(***************************************************************************)
FilePrefix == <<"f","i","l","e",":">>
PendingPrefix == <<"p","e","n","d","i","n","g",":">>

\* path.display() is the path as given.
file_key(path) == FilePrefix \o path
\* A pending record filed under the key of the file records.
pending_key_as_file_key(path) == FilePrefix \o path
pending_key(path) == PendingPrefix \o path

NoValue == [kind |-> "none"]
EmptyDb == [k \in {} |-> NoValue]
\* Bytes under a key that are not the JSON of a record.
Corrupt == [kind |-> "corrupt"]
\* serde_json::from_slice::<T>(&value) succeeds.
from_slice_ok(value, kind) == value.kind = kind
\* Result<T>: Ok(v), or the store's error, with `none` where the value would be.
Ok(v) == [ok |-> TRUE, value |-> v]
Err(none) == [ok |-> FALSE, value |-> none]

FileState(source_path, hash, size, target_drive, target_path, file_category) ==
    [kind |-> "file", source_path |-> source_path, hash |-> hash, size |-> size,
     target_drive |-> target_drive, target_path |-> target_path,
     file_category |-> file_category]

PendingSync(source_path, file_category, target_drive, hash, size) ==
    [kind |-> "pending", source_path |-> source_path,
     file_category |-> file_category, target_drive |-> target_drive,
     hash |-> hash, size |-> size]

db_insert(store, key, value) ==
    [k \in DOMAIN store \cup {key} |-> IF k = key THEN value ELSE store[k]]
db_remove(store, key) == [k \in DOMAIN store \ {key} |-> store[k]]
db_get(store, key) == IF key \in DOMAIN store THEN store[key] ELSE NoValue

RECURSIVE InByteOrder(_)
InByteOrder(keys) ==
    IF keys = {} THEN <<>>
    ELSE LET first == CHOOSE k \in keys : \A other \in keys \ {k} : bytes_less(k, other)
         IN <<first>> \o InByteOrder(keys \ {first})
\* db.scan_prefix(prefix): the values under the prefix, in key order.
scan_prefix(store, prefix) ==
    LET keys == InByteOrder({k \in DOMAIN store : is_prefix(prefix, k)})
    IN [i \in DOMAIN keys |-> store[keys[i]]]

\* A file record written only where the path has none yet.
save_file_state_if_absent(store, state) ==
    IF FilePrefix \o state.source_path \in DOMAIN store
    THEN store
    ELSE db_insert(store, FilePrefix \o state.source_path, state)
\* The hashes compared the wrong way round.
is_file_synced_inverted(store, source_path, current_hash) ==
    LET state == db_get(store, FilePrefix \o source_path) IN
    state.kind = "file" /\ state.hash # current_hash
\* A pending record keyed by its path and its hash.
add_pending_sync_by_hash(store, pending) ==
    db_insert(store, PendingPrefix \o pending.source_path \o <<":", ToString(pending.hash[2])>>,
              pending)
\* The removal aimed at the file record's key.
remove_pending_sync_by_file_key(store, source_path) ==
    db_remove(store, FilePrefix \o source_path)

\* The file record looked up under the pending key.
get_file_state_by_pending_key(store, source_path) ==
    db_get(store, PendingPrefix \o source_path)

save_file_state(store, state) == db_insert(store, file_key(state.source_path), state)
\* The value under the key; from_slice (line 57) fails on the value Corrupt.
get_file_state(store, source_path) == db_get(store, file_key(source_path))
is_file_synced(store, source_path, current_hash) ==
    LET state == get_file_state(store, source_path) IN
    state.kind = "file" /\ state.hash = current_hash
\* A queue that keeps the first record of a path.
add_pending_sync_if_absent(store, pending) ==
    IF pending_key(pending.source_path) \in DOMAIN store
    THEN store
    ELSE db_insert(store, pending_key(pending.source_path), pending)
add_pending_sync(store, pending) ==
    db_insert(store, pending_key(pending.source_path), pending)
remove_pending_sync(store, source_path) == db_remove(store, pending_key(source_path))
\* Lines 89-91: `item?` and `from_slice(&value)?` leave the function at the
\* first value that does not decode.
\* A listing of the pending records of every drive.
get_pending_syncs_of_any_drive(store, drive_uuid) ==
    LET values == scan_prefix(store, PendingPrefix) IN
    IF \A i \in DOMAIN values : from_slice_ok(values[i], "pending")
    THEN Ok(values)
    ELSE Err(<<>>)
get_pending_syncs(store, drive_uuid) ==
    LET values == scan_prefix(store, PendingPrefix) IN
    IF \A i \in DOMAIN values : from_slice_ok(values[i], "pending")
    THEN Ok(SelectSeq(values, LAMBDA v : v.target_drive = drive_uuid))
    ELSE Err(<<>>)
get_all_pending_syncs(store) ==
    LET values == scan_prefix(store, PendingPrefix) IN
    IF \A i \in DOMAIN values : from_slice_ok(values[i], "pending")
    THEN Ok(values)
    ELSE Err(<<>>)
get_all_file_states(store) ==
    LET values == scan_prefix(store, FilePrefix) IN
    IF \A i \in DOMAIN values : from_slice_ok(values[i], "file")
    THEN Ok(values)
    ELSE Err(<<>>)

SyncStats(total_files, total_size, pending_syncs, by_category) ==
    [total_files |-> total_files, total_size |-> total_size,
     pending_syncs |-> pending_syncs, by_category |-> by_category]
NoStats == SyncStats(0, 0, 0, <<>>)
RECURSIVE total_size_of(_)
total_size_of(states) ==
    IF states = <<>> THEN 0 ELSE Head(states).size + total_size_of(Tail(states))
\* Statistics that take the pending records for synced files as well.
get_sync_stats_of_all_records(store) ==
    LET values == scan_prefix(store, <<>>)
        categories == {values[i].file_category : i \in DOMAIN values}
    IN  Ok(SyncStats(Len(values), total_size_of(values),
                     Len(scan_prefix(store, PendingPrefix)),
                     [c \in categories |->
                        Cardinality({i \in DOMAIN values : values[i].file_category = c})]))
get_sync_stats(store) ==
    LET values == scan_prefix(store, FilePrefix)
        pendings == get_all_pending_syncs(store)
        categories == {values[i].file_category : i \in DOMAIN values}
    IN  IF \E i \in DOMAIN values : ~from_slice_ok(values[i], "file")
        THEN Err(NoStats)
        ELSE IF ~pendings.ok
        THEN Err(NoStats)
        ELSE Ok(SyncStats(Len(values), total_size_of(values), Len(pendings.value),
                          [c \in categories |->
                             Cardinality({i \in DOMAIN values :
                                            values[i].file_category = c})]))

\* A wipe that removes the pending records only.
clear_all_pending_only(store) ==
    [k \in {k \in DOMAIN store : ~is_prefix(PendingPrefix, k)} |-> store[k]]
\* clear_all: sled's clear() removes every key of the tree.
clear_all(store) == EmptyDb

\* A write of the store is an insert or a remove on the tree followed by a
\* flush, each left through `?` (lines 46-47, 78-79, 104-105): the write that
\* returns an error has failed in the first, the tree as it was, or in the
\* second, the tree already changed.
failed_write(store, written) == {store, written}

\* The records the store holds for a source path, whatever their keys.
FileRecords(store, p) ==
    {k \in DOMAIN store : store[k].kind = "file" /\ store[k].source_path = p}
PendingRecords(store, p) ==
    {k \in DOMAIN store : store[k].kind = "pending" /\ store[k].source_path = p}

(***************************************************************************)
(* Drive detector (src/drive/mod.rs) over a snapshot: a sequence of disks. *)
(***************************************************************************)
is_drive_connected(snapshot, mount_point) ==
    \E i \in DOMAIN snapshot : snapshot[i].mount_point = mount_point

LabelMatches(drive, label) ==
    \/ contains(to_lowercase(drive.name), to_lowercase(label))
    \/ contains(to_lowercase(drive.mount_point), to_lowercase(label))

NoDisk == [name |-> <<>>, mount_point |-> NoPath]
\* find: the first match in enumeration order, or NoDisk for Option::None.
find_drive_by_label(snapshot, label) ==
    IF \E i \in DOMAIN snapshot : LabelMatches(snapshot[i], label)
    THEN snapshot[CHOOSE i \in DOMAIN snapshot :
            /\ LabelMatches(snapshot[i], label)
            /\ \A j \in DOMAIN snapshot : LabelMatches(snapshot[j], label) => i <= j]
    ELSE NoDisk

\* A drive with a configured path taken as connected without looking.
drive_connected_by_config(snapshot, drive_config) ==
    \/ drive_config.path # NoPath
    \/ find_drive_by_label(snapshot, drive_config.label) # NoDisk

\* sync_file lines 71-76 and check_and_sync_connected_drives lines 233-237.
drive_connected(snapshot, drive_config) ==
    IF drive_config.path # NoPath
    THEN is_drive_connected(snapshot, drive_config.path)
    ELSE find_drive_by_label(snapshot, drive_config.label) # NoDisk

\* A destination taken from the last disk that matches the label.
target_base_of_last_match(snapshot, drive_config) ==
    IF drive_config.path # NoPath
    THEN drive_config.path
    ELSE IF \E i \in DOMAIN snapshot : LabelMatches(snapshot[i], drive_config.label)
    THEN snapshot[CHOOSE i \in DOMAIN snapshot :
            /\ LabelMatches(snapshot[i], drive_config.label)
            /\ \A j \in DOMAIN snapshot :
                  LabelMatches(snapshot[j], drive_config.label) => j <= i].mount_point
    ELSE NoPath

\* sync_file lines 95-102.
target_base(snapshot, drive_config) ==
    IF drive_config.path # NoPath
    THEN drive_config.path
    ELSE find_drive_by_label(snapshot, drive_config.label).mount_point

\* sync_file lines 105-109.
target_path_of(base, category, source_path) ==
    join(join(base, category), strip_prefix_or(source_path, SourceRoot))

(***************************************************************************)
(* State.                                                                  *)
(***************************************************************************)
VARIABLES
    content,   \* source files: path -> Absent or the file's bytes
    dest,      \* destination files: target path -> [bytes, complete]
    live,      \* the disks attached right now
    disks,     \* DriveDetector.disks: the snapshot taken by the last refresh
    db,        \* the sled tree: key -> FileState or PendingSync
    faults,    \* I/O and store failures the environment may still inject
    op,        \* the public operation in progress
    pc,        \* where the engine stands within it
    call,      \* sync_file's locals
    batch,     \* the locals of sync_all, process_pending_syncs and the sweep
    ret,       \* the value returned by the step just taken, if it returned
    obs,       \* history of the operation in progress or just returned
    feed,      \* cmd_run: the watcher's two channels and the events emitted so far
    run        \* cmd_run: its two tasks and the mutex around the SyncManager

vars == <<content, dest, live, disks, db, faults, op, pc, call, batch, ret, obs, feed, run>>

RoutedPaths ==
    {p \in Spellings : find_drive_for_category(classify_by_extension(p)) # NoDrive}

TargetPaths ==
    {target_path_of(d.mount_point, classify_by_extension(p), p) :
        d \in AllDisks, p \in RoutedPaths} \ Paths

NoFile == [bytes |-> Absent, complete |-> TRUE]

\* SyncResult and the errors sync_file returns.
Result(tag, arg) == [tag |-> tag, arg |-> arg]
NoResult == Result("none", <<>>)

NoSummary == [synced |-> 0, pending |-> 0, already_synced |-> 0, skipped |-> 0, failed |-> 0]
total(s) == s.synced + s.pending + s.already_synced + s.skipped + s.failed

NoCall == [path |-> NoPath, hash |-> NoHash, size |-> 0, category |-> Unknown,
           drive_uuid |-> NoDrive, target_path |-> NoPath]
NewCall(p) == [NoCall EXCEPT !.path = p]

\* The lines a batch logs about its files: error! (line 157) in sync_all; info!,
\* error! and warn! (lines 176, 177, 180) in process_pending_syncs.  An error!
\* line carries the error sync_file returned.
LogLine(level, path, e) == [level |-> level, path |-> path, error |-> e]
is_err(r) == r.tag \notin {"Synced", "Pending", "AlreadySynced", "Skipped"}

NoBatch == [files |-> <<>>, summary |-> NoSummary, pendings |-> <<>>,
            drive_uuid |-> NoDrive, count |-> 0, drives |-> {}, log |-> <<>>]

NoRet == [op |-> "none", path |-> NoPath, drive_uuid |-> NoDrive, result |-> NoResult,
          summary |-> NoSummary, count |-> 0, log |-> <<>>, list |-> <<>>,
          stats |-> NoStats]

\* obs.db0: the store when the operation began; obs.files: the files the
\* environment changed since; obs.disks: whether it attached or detached a disk;
\* obs.copied: the files whose copy was begun; obs.again: the operation is a
\* sync_file of the file for which a sync_file has just returned Synced, that
\* file unchanged during that call and nothing having happened in between;
\* obs.found: the files sync_all's collect_files returned; obs.retry: as
\* obs.again, for a sync_file that has just failed in its copy.
\* obs.cleared: the files that had a FileRecord of their present content when
\* the clear_all began that succeeded just before the operation.
NoObs == [db0 |-> EmptyDb, files |-> {}, disks |-> FALSE, copied |-> {}, again |-> FALSE,
          found |-> <<>>, retry |-> FALSE, cleared |-> {}]
Begin(p) ==
    obs' = [NoObs EXCEPT
              !.db0 = db,
              !.again = /\ ret.op = "sync_file"
                        /\ ret.path = p
                        /\ ret.result.tag = "Synced"
                        /\ p \notin obs.files,
              !.retry = /\ ret.op = "sync_file"
                        /\ ret.path = p
                        /\ ret.result.tag = "Err:Copy"
                        /\ p \notin obs.files,
              !.cleared = IF ret.op = "clear_all" /\ ret.result.tag = "Ok"
                          THEN {q \in DOMAIN content :
                                  /\ content[q] # Absent
                                  /\ is_file_synced(obs.db0, q,
                                                    calculate_file_hash(content[q]))}
                          ELSE {}]

\* FileEvent (watcher/mod.rs lines 10-14); id is the event's rank of emission.
FileEvent(kind, path, id) == [kind |-> kind, path |-> path, id |-> id]
NoEvent == FileEvent("none", NoPath, 0)
\* feed.raw: notify's events on their way to process_events; feed.chan: the
\* FileEvents on their way to the run loop.
NoFeed == [raw |-> <<>>, chan |-> <<>>, emitted |-> 0]
\* Outside cmd_run its tasks do not exist.
NoRun == [events |-> "off", sweep |-> "off", mutex |-> "free", event |-> NoEvent]

InitWith(n) ==
    /\ content = [p \in Paths |-> IF p \in StartPaths THEN 1 ELSE Absent]
    /\ dest = [t \in TargetPaths |-> NoFile]
    /\ live = {}
    /\ disks = <<>>
    /\ db = EmptyDb
    /\ faults = n
    /\ op = "idle"
    /\ pc = "idle"
    /\ call = NoCall
    /\ batch = NoBatch
    /\ ret = NoRet
    /\ obs = NoObs
    /\ feed = NoFeed
    /\ run = NoRun

Init == InitWith(0)

\* The failures that may happen at a step: none, or one of `kinds`.
Outcomes(kinds) == IF faults > 0 THEN {"ok"} \cup kinds ELSE {"ok"}
Spend(f) == faults' = IF f = "ok" THEN faults ELSE faults - 1

(***************************************************************************)
(* The environment: the user's files and the removable disks.              *)
(***************************************************************************)
Disturb(files, disk) ==
    /\ ret' = NoRet
    /\ obs' = IF pc = "idle" THEN NoObs
              ELSE [obs EXCEPT !.files = @ \cup files, !.disks = @ \/ disk]
    /\ UNCHANGED <<dest, disks, db, faults, op, pc, call, batch>>

WriteFile(p, c) ==
    /\ content[p] # c
    /\ content' = [content EXCEPT ![p] = c]
    /\ Disturb({p}, FALSE)
    /\ UNCHANGED live

RemoveFile(p) ==
    /\ content[p] # Absent
    /\ content' = [content EXCEPT ![p] = Absent]
    /\ Disturb({p}, FALSE)
    /\ UNCHANGED live

Attach(d) ==
    /\ d \notin live
    /\ live' = live \cup {d}
    /\ Disturb({}, TRUE)
    /\ UNCHANGED content

Detach(d) ==
    /\ d \in live
    /\ live' = live \ {d}
    /\ Disturb({}, TRUE)
    /\ UNCHANGED content

(***************************************************************************)
(* Control: returning from sync_file to its caller, and from a public      *)
(* operation to the command that ran it.                                   *)
(***************************************************************************)
Tally_ok_only(s, r) ==
    CASE r.tag = "Synced" -> [s EXCEPT !.synced = @ + 1]
      [] r.tag = "Pending" -> [s EXCEPT !.pending = @ + 1]
      [] r.tag = "AlreadySynced" -> [s EXCEPT !.already_synced = @ + 1]
      [] r.tag = "Skipped" -> [s EXCEPT !.skipped = @ + 1]
      [] OTHER -> s

\* sync_all lines 151-160.
Tally(s, r) ==
    CASE r.tag = "Synced" -> [s EXCEPT !.synced = @ + 1]
      [] r.tag = "Pending" -> [s EXCEPT !.pending = @ + 1]
      [] r.tag = "AlreadySynced" -> [s EXCEPT !.already_synced = @ + 1]
      [] r.tag = "Skipped" -> [s EXCEPT !.skipped = @ + 1]
      [] OTHER -> [s EXCEPT !.failed = @ + 1]

\* The public operation returns `value` and its SyncManager is dropped
\* (main.rs builds one per command).
Finish(value) ==
    /\ op' = "idle"
    /\ pc' = "idle"
    /\ call' = NoCall
    /\ batch' = NoBatch
    /\ disks' = <<>>
    /\ ret' = value
    /\ UNCHANGED <<feed, run>>

\* The operation goes on at `at`.
Continue(at, locals, frame, snapshot) ==
    /\ pc' = at
    /\ call' = locals
    /\ batch' = frame
    /\ disks' = snapshot
    /\ ret' = NoRet
    /\ UNCHANGED <<op, feed, run>>

\* sync_file's caller if the batches gave up at the first file that fails.
Return_or_abort(r, snapshot) ==
    IF op = "sync_file"
    THEN Finish([NoRet EXCEPT !.op = op, !.path = call.path, !.result = r])
    ELSE IF is_err(r)
    THEN Finish([NoRet EXCEPT !.op = op, !.result = r, !.drive_uuid = batch.drive_uuid,
                              !.log = Append(batch.log, LogLine("error", call.path, r.tag))])
    ELSE IF op = "sync_all"
    THEN LET s == Tally(batch.summary, r) IN
         IF batch.files = <<>>
         THEN Finish([NoRet EXCEPT !.op = op, !.result = Result("Ok", <<>>),
                                   !.summary = s, !.log = batch.log])
         ELSE Continue("start", NewCall(Head(batch.files)),
                       [batch EXCEPT !.files = Tail(@), !.summary = s], snapshot)
    ELSE Continue("drain", NoCall,
                  [batch EXCEPT !.log = Append(@, LogLine("info", call.path, ""))], snapshot)

\* sync_file returns r, the detector holding `snapshot`.
Return(r, snapshot) ==
    CASE op = "sync_file" ->
            Finish([NoRet EXCEPT !.op = op, !.path = call.path, !.result = r])
      [] op = "sync_all" ->
            LET s == Tally(batch.summary, r)
                log == IF is_err(r) THEN Append(batch.log, LogLine("error", call.path, r.tag))
                       ELSE batch.log
            IN
            IF batch.files = <<>>
            THEN Finish([NoRet EXCEPT !.op = op, !.result = Result("Ok", <<>>),
                                      !.summary = s, !.log = log])
            ELSE Continue("start", NewCall(Head(batch.files)),
                          [batch EXCEPT !.files = Tail(@), !.summary = s, !.log = log],
                          snapshot)
      [] OTHER ->
            LET line == IF is_err(r) THEN LogLine("error", call.path, r.tag)
                        ELSE LogLine("info", call.path, "")
            IN  Continue("drain", NoCall, [batch EXCEPT !.log = Append(@, line)], snapshot)

(***************************************************************************)
(* sync_file (src/sync/mod.rs lines 28-140), in three steps: the file is   *)
(* read (lines 29-66), the route is decided and the copy begun (68-119),   *)
(* the copy ends and the store is written (119-139).  The copy reads the   *)
(* source when it begins.                                                  *)
(***************************************************************************)
SyncFileStart ==
    /\ pc = "start"
    /\ LET p == call.path
           c == content[resolve(p)]
           category == classify_by_extension(p)
           uuid == find_drive_for_category(category)
           hash == calculate_file_hash(c)
       IN \E f \in Outcomes({"metadata", "read", "db"}) :
            /\ Spend(f)
            /\ IF c = Absent THEN f = "ok" /\ Return(Result("Err:NotFound", <<>>), disks)
               ELSE IF f = "metadata" THEN Return(Result("Err:Classify", <<>>), disks)
               ELSE IF category = Unknown
               THEN f = "ok" /\ Return(Result("Skipped", <<>>), disks)
               ELSE IF uuid = NoDrive
               THEN f = "ok" /\ Return(Result("Err:NoDrive", <<>>), disks)
               ELSE IF f = "read" THEN Return(Result("Err:Hash", <<>>), disks)
               ELSE IF f = "db" \/ get_file_state(db, p) = Corrupt
               THEN Return(Result("Err:State", <<>>), disks)
               ELSE IF is_file_synced(db, p, hash)
               THEN Return(Result("AlreadySynced", <<>>), disks)
               ELSE Continue("hashed",
                             [call EXCEPT !.hash = hash, !.size = FileSize(c),
                                          !.category = category, !.drive_uuid = uuid],
                             batch, disks)
    /\ UNCHANGED <<content, dest, live, db, obs>>

SyncFileRoute ==
    /\ pc = "hashed"
    /\ \E snapshot \in refresh(live), f \in Outcomes({"db", "mkdir"}) :
        LET p == call.path
            drive_config == ConfigDrives[call.drive_uuid]
            pending == PendingSync(p, call.category, call.drive_uuid, call.hash, call.size)
            target == target_path_of(target_base(snapshot, drive_config), call.category, p)
        IN  /\ Spend(f)
            /\ IF ~drive_connected(snapshot, drive_config)
               THEN /\ f \in {"ok", "db"}
                    /\ db' \in IF f = "ok" THEN {add_pending_sync(db, pending)}
                               ELSE failed_write(db, add_pending_sync(db, pending))
                    /\ UNCHANGED <<content, dest, obs>>
                    /\ Return(IF f = "ok" THEN Result("Pending", drive_config.label)
                                          ELSE Result("Err:State", <<>>), snapshot)
               ELSE /\ f \in {"ok", "mkdir"}
                    /\ db' = db
                    /\ IF f = "mkdir"
                       THEN UNCHANGED <<content, dest, obs>>
                            /\ Return(Result("Err:Mkdir", <<>>), snapshot)
                       ELSE IF content[resolve(p)] = Absent
                       THEN UNCHANGED <<content, dest, obs>>
                            /\ Return(Result("Err:Copy", <<>>), snapshot)
                       ELSE IF resolve(target) = resolve(p)
                       THEN \* The file is copied onto itself: fs::copy opens its
                            \* destination for writing, which on most systems
                            \* truncates the file before anything is read.
                            /\ content' \in {content, [content EXCEPT ![resolve(p)] = Empty]}
                            /\ obs' = [obs EXCEPT !.copied = @ \cup {p}]
                            /\ UNCHANGED dest
                            /\ Continue("copying", [call EXCEPT !.target_path = target],
                                        batch, snapshot)
                       ELSE /\ dest' = [dest EXCEPT ![target] =
                                            [bytes |-> content[resolve(p)],
                                             complete |-> FALSE]]
                            /\ obs' = [obs EXCEPT !.copied = @ \cup {p}]
                            /\ UNCHANGED content
                            /\ Continue("copying", [call EXCEPT !.target_path = target],
                                        batch, snapshot)
    /\ UNCHANGED live

\* A sync_file that records the file although its copy failed.
SyncFileCopied_recording_failures ==
    /\ pc = "copying"
    /\ \E f \in Outcomes({"copy"}) :
        LET file_state == FileState(call.path, call.hash, call.size, call.drive_uuid,
                                    call.target_path, call.category)
        IN  /\ Spend(f)
            /\ db' = remove_pending_sync(save_file_state(db, file_state), call.path)
            /\ IF f = "copy"
               THEN /\ UNCHANGED dest
                    /\ Return(Result("Err:Copy", <<>>), disks)
               ELSE /\ dest' = IF call.target_path \in DOMAIN dest
                              THEN [dest EXCEPT ![call.target_path].complete = TRUE]
                              ELSE dest
                    /\ Return(Result("Synced", call.target_path), disks)
    /\ UNCHANGED <<content, live, obs>>

\* A sync_file that removes the pending record before it saves the file record.
SyncFileCopied_removing_first ==
    /\ pc = "copying"
    /\ \E f \in Outcomes({"copy", "save", "remove"}) :
        LET p == call.path
            file_state == FileState(p, call.hash, call.size, call.drive_uuid,
                                    call.target_path, call.category)
            removed == remove_pending_sync(db, p)
        IN  /\ Spend(f)
            /\ IF f = "copy"
               THEN /\ UNCHANGED <<dest, db>>
                    /\ Return(Result("Err:Copy", <<>>), disks)
               ELSE /\ dest' = IF call.target_path \in DOMAIN dest
                              THEN [dest EXCEPT ![call.target_path].complete = TRUE]
                              ELSE dest
                    /\ IF f = "save"
                       THEN /\ db' \in failed_write(removed, save_file_state(removed, file_state))
                            /\ Return(Result("Err:State", <<>>), disks)
                       ELSE /\ db' \in IF f = "remove"
                                       THEN {save_file_state(d, file_state) :
                                               d \in failed_write(db, removed)}
                                       ELSE {save_file_state(removed, file_state)}
                            /\ Return(Result("Synced", call.target_path), disks)
    /\ UNCHANGED <<content, live, obs>>

SyncFileCopied ==
    /\ pc = "copying"
    /\ \E f \in Outcomes({"copy", "save", "remove"}) :
        LET p == call.path
            file_state == FileState(p, call.hash, call.size, call.drive_uuid,
                                    call.target_path, call.category)
            saved == save_file_state(db, file_state)
        IN  /\ Spend(f)
            /\ IF f = "copy"
               THEN /\ UNCHANGED <<dest, db>>
                    /\ Return(Result("Err:Copy", <<>>), disks)
               ELSE /\ dest' = IF call.target_path \in DOMAIN dest
                              THEN [dest EXCEPT ![call.target_path].complete = TRUE]
                              ELSE dest
                    /\ IF f = "save"
                       THEN /\ db' \in failed_write(db, saved)
                            /\ Return(Result("Err:State", <<>>), disks)
                       ELSE /\ db' \in IF f = "remove"
                                       THEN failed_write(saved, remove_pending_sync(saved, p))
                                       ELSE {remove_pending_sync(saved, p)}
                            /\ Return(Result("Synced", call.target_path), disks)
    /\ UNCHANGED <<content, live, obs>>

(***************************************************************************)
(* The public operations.  Each command builds a SyncManager; the listing  *)
(* its DriveDetector::new() takes is replaced by the refresh of line 69 or *)
(* line 225 before anything reads it, and `disks` stays empty until then.  *)
(***************************************************************************)
\* cmd_sync_once with a file, and the run loop's handling of a change event.
SyncOne(p) ==
    /\ pc = "idle"
    /\ op' = "sync_file"
    /\ Begin(p)
    /\ pc' = "start"
    /\ call' = NewCall(p)
    /\ ret' = NoRet
    /\ UNCHANGED <<content, dest, live, disks, db, faults, batch>>

\* sync_all lines 143-150, with collect_files.  read_dir lists the directory
\* in an order of its own; the files are taken here in the order of their names.
\* The failure "read_dir" is read_dir's or that of reading one of its entries
\* (lines 200-205): either leaves collect_files_recursive through `?`.
SyncAll ==
    /\ pc = "idle"
    /\ \E f \in Outcomes({"read_dir"}) :
        LET files == InByteOrder({p \in Paths :
                                    starts_with(p, SourceRoot) /\ content[p] # Absent})
        IN  /\ Spend(f)
            /\ obs' = [NoObs EXCEPT !.db0 = db,
                                    !.found = IF f = "read_dir" THEN <<>> ELSE files]
            /\ IF f = "read_dir"
               THEN Finish([NoRet EXCEPT !.op = "sync_all",
                                         !.result = Result("Err:ReadDir", <<>>)])
               ELSE IF files = <<>>
               THEN Finish([NoRet EXCEPT !.op = "sync_all",
                                         !.result = Result("Ok", <<>>)])
               ELSE /\ op' = "sync_all"
                    /\ pc' = "start"
                    /\ disks' = disks
                    /\ ret' = NoRet
                    /\ call' = NewCall(Head(files))
                    /\ batch' = [NoBatch EXCEPT !.files = Tail(files)]
    /\ UNCHANGED <<content, dest, live, db>>

\* process_pending_syncs lines 167-171, called by a command.
ProcessPendingSyncs(drive_uuid) ==
    /\ pc = "idle"
    /\ Begin(NoPath)
    /\ \E f \in Outcomes({"db"}) :
        LET pending_syncs == get_pending_syncs(db, drive_uuid)
        IN  /\ Spend(f)
            /\ IF f = "db" \/ ~pending_syncs.ok
               THEN Finish([NoRet EXCEPT !.op = "process_pending_syncs",
                                         !.drive_uuid = drive_uuid,
                                         !.result = Result("Err:State", <<>>)])
               ELSE /\ op' = "process_pending_syncs"
                    /\ pc' = "drain"
                    /\ call' = NoCall
                    /\ batch' = [NoBatch EXCEPT !.pendings = pending_syncs.value,
                                                !.count = Len(pending_syncs.value),
                                                !.drive_uuid = drive_uuid]
                    /\ disks' = disks
                    /\ ret' = NoRet
    /\ UNCHANGED <<content, dest, live, db>>

\* A drain that handles each record of an existing file a second time.
DrainItem_twice ==
    /\ pc = "drain"
    /\ batch.pendings # <<>>
    /\ LET pending == Head(batch.pendings)
           rest == [batch EXCEPT !.pendings = Tail(@)]
       IN IF content[resolve(pending.source_path)] # Absent
          THEN /\ Continue("start", NewCall(pending.source_path),
                           IF \E i \in DOMAIN batch.log :
                                 batch.log[i].path = pending.source_path
                           THEN rest ELSE batch, disks)
               /\ UNCHANGED <<db, faults>>
          ELSE \E f \in Outcomes({"remove"}) :
                /\ Spend(f)
                /\ db' \in IF f = "ok" THEN {remove_pending_sync(db, pending.source_path)}
                           ELSE failed_write(db, remove_pending_sync(db,
                                                                     pending.source_path))
                /\ Continue("drain", NoCall,
                            [rest EXCEPT !.log = Append(@, LogLine("warn",
                                                                  pending.source_path, ""))],
                            disks)
    /\ UNCHANGED <<content, dest, live, obs>>

\* process_pending_syncs lines 173-183: the next pending record.
DrainItem ==
    /\ pc = "drain"
    /\ batch.pendings # <<>>
    /\ LET pending == Head(batch.pendings)
           rest == [batch EXCEPT !.pendings = Tail(@)]
       IN IF content[resolve(pending.source_path)] # Absent
          THEN /\ Continue("start", NewCall(pending.source_path), rest, disks)
               /\ UNCHANGED <<db, faults>>
          ELSE \E f \in Outcomes({"remove"}) :
                /\ Spend(f)
                /\ db' \in IF f = "ok" THEN {remove_pending_sync(db, pending.source_path)}
                           ELSE failed_write(db, remove_pending_sync(db,
                                                                     pending.source_path))
                /\ Continue("drain", NoCall,
                            [rest EXCEPT !.log = Append(@, LogLine("warn",
                                                                  pending.source_path, ""))],
                            disks)
    /\ UNCHANGED <<content, dest, live, obs>>

\* A drain that returns the number of records it synced.
DrainReturn_counting_synced ==
    /\ pc = "drain"
    /\ batch.pendings = <<>>
    /\ IF op = "process_pending_syncs"
       THEN Finish([NoRet EXCEPT !.op = op, !.drive_uuid = batch.drive_uuid,
                                 !.result = Result("Ok", <<>>),
                                 !.count = Cardinality({i \in DOMAIN batch.log :
                                                          batch.log[i].level = "info"}),
                                 !.log = batch.log])
       ELSE Continue("sweep", NoCall, batch, disks)
    /\ UNCHANGED <<content, dest, live, db, faults, obs>>

\* process_pending_syncs line 185, and the sweep's lines 241-245.
DrainReturn ==
    /\ pc = "drain"
    /\ batch.pendings = <<>>
    /\ IF op = "process_pending_syncs"
       THEN Finish([NoRet EXCEPT !.op = op, !.drive_uuid = batch.drive_uuid,
                                 !.result = Result("Ok", <<>>), !.count = batch.count,
                                 !.log = batch.log])
       ELSE Continue("sweep", NoCall, batch, disks)
    /\ UNCHANGED <<content, dest, live, db, faults, obs>>

\* check_and_sync_connected_drives lines 224-228.
CheckAndSyncConnectedDrives ==
    /\ pc = "idle"
    /\ Begin(NoPath)
    /\ op' = "check_and_sync_connected_drives"
    /\ pc' = "sweep"
    /\ call' = NoCall
    /\ batch' = [NoBatch EXCEPT !.drives = DriveIds]
    /\ disks' \in refresh(live)
    /\ ret' = NoRet
    /\ UNCHANGED <<content, dest, live, db, faults>>

\* A sweep that drains every configured drive, connected or not.
SweepDrive_every_drive ==
    /\ pc = "sweep"
    /\ \E drive_uuid \in batch.drives :
        LET rest == [batch EXCEPT !.drives = @ \ {drive_uuid}]
            pending_syncs == get_pending_syncs(db, drive_uuid)
        IN  Continue("drain", NoCall,
                     [rest EXCEPT !.pendings = pending_syncs.value,
                                  !.count = Len(pending_syncs.value),
                                  !.drive_uuid = drive_uuid], disks)
    /\ UNCHANGED <<content, dest, live, db, faults, obs>>

\* check_and_sync_connected_drives lines 231-241: the next drive, in the map's order.
SweepDrive ==
    /\ pc = "sweep"
    /\ \E drive_uuid \in batch.drives, f \in Outcomes({"db"}) :
        LET rest == [batch EXCEPT !.drives = @ \ {drive_uuid}]
            pending_syncs == get_pending_syncs(db, drive_uuid)
        IN  /\ Spend(f)
            /\ IF ~drive_connected(disks, ConfigDrives[drive_uuid])
               THEN f = "ok" /\ Continue("sweep", NoCall, rest, disks)
               ELSE IF f = "db" \/ ~pending_syncs.ok
               THEN Finish([NoRet EXCEPT !.op = op, !.result = Result("Err:State", <<>>)])
               ELSE Continue("drain", NoCall,
                             [rest EXCEPT !.pendings = pending_syncs.value,
                                          !.count = Len(pending_syncs.value),
                                          !.drive_uuid = drive_uuid], disks)
    /\ UNCHANGED <<content, dest, live, db, obs>>

\* check_and_sync_connected_drives line 249.
SweepReturn ==
    /\ pc = "sweep"
    /\ batch.drives = {}
    /\ Finish([NoRet EXCEPT !.op = op, !.result = Result("Ok", <<>>), !.log = batch.log])
    /\ UNCHANGED <<content, dest, live, db, faults, obs>>

\* The environment rewriting the files F and plugging the disks D.
Environment(F, D) ==
    \/ \E p \in F, c \in Contents : WriteFile(p, c) /\ UNCHANGED <<feed, run>>
    \/ \E p \in F : RemoveFile(p) /\ UNCHANGED <<feed, run>>
    \/ \E d \in D : Attach(d) /\ UNCHANGED <<feed, run>>
    \/ \E d \in D : Detach(d) /\ UNCHANGED <<feed, run>>

\* The commands, on the paths P and the drives U.
Commands(P, U) ==
    \/ \E p \in P : SyncOne(p) /\ UNCHANGED <<feed, run>>
    \/ SyncAll /\ UNCHANGED <<feed, run>>
    \/ \E u \in U : ProcessPendingSyncs(u) /\ UNCHANGED <<feed, run>>
    \/ CheckAndSyncConnectedDrives /\ UNCHANGED <<feed, run>>

Steps ==
    \/ SyncFileStart
    \/ SyncFileRoute
    \/ SyncFileCopied
    \/ DrainItem
    \/ DrainReturn
    \/ SweepDrive
    \/ SweepReturn

\* Commands run one at a time while one file and the disk of its drive change
\* under them; the disk of the other drive stays away, and no I/O or store
\* failure is injected.
Next == Environment(VolatilePaths, {DiskImg}) \/ Commands(StartPaths, DriveIds) \/ Steps
Spec == Init /\ [][Next]_vars

\* The same, with up to MaxFaults injected failures.
FaultInit == InitWith(MaxFaults)
FaultSpec == FaultInit /\ [][Next]_vars

\* Batches over a source directory that holds two files of one drive, one of
\* which changes under them.
BatchInit ==
    /\ content = [p \in Paths |-> 1]
    /\ dest = [t \in TargetPaths |-> NoFile]
    /\ live = {}
    /\ disks = <<>>
    /\ db = EmptyDb
    /\ faults = 0
    /\ op = "idle"
    /\ pc = "idle"
    /\ call = NoCall
    /\ batch = NoBatch
    /\ ret = NoRet
    /\ obs = NoObs
    /\ feed = NoFeed
    /\ run = NoRun
BatchNext ==
    \/ Environment(VolatilePaths, {DiskImg})
    \/ Commands({P_jpg, P_png}, {DriveImg})
    \/ Steps
BatchSpec == BatchInit /\ [][BatchNext]_vars

\* sync_file and the drain on two files of one drive whose disk comes and
\* goes, one of the files being removed and written again.  A command that
\* was started runs on to its end: nothing in sync_file or the drain waits
\* for anything.
DrainInit == BatchInit
DrainNext ==
    \/ RemoveFile(P_jpg) /\ UNCHANGED <<feed, run>>
    \/ WriteFile(P_jpg, 1) /\ UNCHANGED <<feed, run>>
    \/ Attach(DiskImg) /\ UNCHANGED <<feed, run>>
    \/ Detach(DiskImg) /\ UNCHANGED <<feed, run>>
    \/ \E p \in {P_jpg, P_png} : SyncOne(p) /\ UNCHANGED <<feed, run>>
    \/ ProcessPendingSyncs(DriveImg) /\ UNCHANGED <<feed, run>>
    \/ SyncFileStart
    \/ SyncFileRoute
    \/ SyncFileCopied
    \/ DrainItem
    \/ DrainReturn
DrainSteps == SyncFileStart \/ SyncFileRoute \/ SyncFileCopied \/ DrainItem \/ DrainReturn
DrainSpec == DrainInit /\ [][DrainNext]_vars /\ WF_vars(DrainSteps)

\* sync_file and the sweep with both drives' files, while the disks of the two
\* drives and a third disk come and go.
DriveInit ==
    /\ content = [p \in Paths |-> IF p \in {P_jpg, P_mp4} THEN 1 ELSE Absent]
    /\ dest = [t \in TargetPaths |-> NoFile]
    /\ live = {}
    /\ disks = <<>>
    /\ db = EmptyDb
    /\ faults = 0
    /\ op = "idle"
    /\ pc = "idle"
    /\ call = NoCall
    /\ batch = NoBatch
    /\ ret = NoRet
    /\ obs = NoObs
    /\ feed = NoFeed
    /\ run = NoRun
DriveNext ==
    \/ \E d \in AllDisks : Attach(d) /\ UNCHANGED <<feed, run>>
    \/ \E d \in AllDisks : Detach(d) /\ UNCHANGED <<feed, run>>
    \/ \E p \in {P_jpg, P_mp4} : SyncOne(p) /\ UNCHANGED <<feed, run>>
    \/ CheckAndSyncConnectedDrives /\ UNCHANGED <<feed, run>>
    \/ Steps
DriveSpec == DriveInit /\ [][DriveNext]_vars

\* sync_file on files of an unknown type and of a category without a drive,
\* which come and go, next to a file that is copied.
ExitInit ==
    /\ content = [p \in Paths |-> IF p \in {P_jpg, P_xyz, P_pdf} THEN 1 ELSE Absent]
    /\ dest = [t \in TargetPaths |-> NoFile]
    /\ live = {}
    /\ disks = <<>>
    /\ db = EmptyDb
    /\ faults = 0
    /\ op = "idle"
    /\ pc = "idle"
    /\ call = NoCall
    /\ batch = NoBatch
    /\ ret = NoRet
    /\ obs = NoObs
    /\ feed = NoFeed
    /\ run = NoRun
ExitNext ==
    \/ \E p \in {P_xyz, P_pdf} : WriteFile(p, 1) /\ UNCHANGED <<feed, run>>
    \/ \E p \in {P_xyz, P_pdf} : RemoveFile(p) /\ UNCHANGED <<feed, run>>
    \/ Attach(DiskImg) /\ UNCHANGED <<feed, run>>
    \/ Detach(DiskImg) /\ UNCHANGED <<feed, run>>
    \/ \E p \in {P_jpg, P_xyz, P_pdf} : SyncOne(p) /\ UNCHANGED <<feed, run>>
    \/ SyncFileStart
    \/ SyncFileRoute
    \/ SyncFileCopied
ExitSpec == ExitInit /\ [][ExitNext]_vars

\* cmd_sync_once on a file named by the user: a file of the source directory
\* under its absolute name or as seen from the working directory, or a file
\* outside the source directory.
PathInit ==
    /\ content = [p \in Paths |-> IF p \in {P_jpg, P_out} THEN 1 ELSE Absent]
    /\ dest = [t \in TargetPaths |-> NoFile]
    /\ live = {}
    /\ disks = <<>>
    /\ db = EmptyDb
    /\ faults = 0
    /\ op = "idle"
    /\ pc = "idle"
    /\ call = NoCall
    /\ batch = NoBatch
    /\ ret = NoRet
    /\ obs = NoObs
    /\ feed = NoFeed
    /\ run = NoRun
PathNext ==
    \/ Attach(DiskImg) /\ UNCHANGED <<feed, run>>
    \/ Detach(DiskImg) /\ UNCHANGED <<feed, run>>
    \/ \E p \in {P_jpg, P_rel, P_out} : SyncOne(p) /\ UNCHANGED <<feed, run>>
    \/ SyncFileStart
    \/ SyncFileRoute
    \/ SyncFileCopied
PathSpec == PathInit /\ [][PathNext]_vars

(***************************************************************************)
(* The store's operations on single records (state/mod.rs lines 42-107),   *)
(* applied in any order to records of two files.  ret.list holds the       *)
(* record given or returned.                                               *)
(***************************************************************************)
StoredPaths == {P_jpg, P_png}
FileStates ==
    {FileState(p, calculate_file_hash(c), FileSize(c), DriveImg,
               target_path_of(ConfigDrives[DriveImg].path, Images, p), Images) :
        p \in StoredPaths, c \in Contents}
PendingSyncs ==
    {PendingSync(p, Images, DriveImg, calculate_file_hash(c), FileSize(c)) :
        p \in StoredPaths, c \in Contents}

StoreCall(name, path, store, list) ==
    /\ pc = "idle"
    /\ db' = store
    /\ ret' = [NoRet EXCEPT !.op = name, !.path = path,
                            !.result = Result("Ok", <<>>), !.list = list]
    /\ obs' = [NoObs EXCEPT !.db0 = db]
    /\ UNCHANGED <<content, dest, live, disks, faults, op, pc, call, batch, feed, run>>

SaveFileState(state) ==
    StoreCall("save_file_state", state.source_path, save_file_state(db, state), <<state>>)
AddPendingSync(pending) ==
    StoreCall("add_pending_sync", pending.source_path, add_pending_sync(db, pending),
              <<pending>>)
RemovePendingSync(source_path) ==
    StoreCall("remove_pending_sync", source_path, remove_pending_sync(db, source_path),
              <<>>)
GetFileState(source_path) ==
    StoreCall("get_file_state", source_path, db,
              IF get_file_state(db, source_path) = NoValue THEN <<>>
              ELSE <<get_file_state(db, source_path)>>)

StoreInit == InitWith(0)
StoreNext ==
    \/ \E state \in FileStates : SaveFileState(state)
    \/ \E pending \in PendingSyncs : AddPendingSync(pending)
    \/ \E p \in StoredPaths : RemovePendingSync(p)
    \/ \E p \in StoredPaths : GetFileState(p)
StoreSpec == StoreInit /\ [][StoreNext]_vars

(***************************************************************************)
(* The listings of the store (state/mod.rs lines 85-162) and the drain,    *)
(* over a store left by earlier runs in which values may have been         *)
(* damaged: for each file nothing, a pending record or a file record, the  *)
(* record's value intact or not decodable.  No disk is attached.           *)
(***************************************************************************)
IntactPending(p) ==
    LET category == classify_by_extension(p) IN
    PendingSync(p, category, find_drive_for_category(category),
                calculate_file_hash(1), FileSize(1))
IntactFile(p) ==
    LET category == classify_by_extension(p)
        uuid == find_drive_for_category(category)
    IN  FileState(p, calculate_file_hash(1), FileSize(1), uuid,
                  target_path_of(ConfigDrives[uuid].path, category, p), category)
PendingSlots(p) ==
    {EmptyDb} \cup {db_insert(EmptyDb, pending_key(p), v) : v \in {IntactPending(p), Corrupt}}
FileSlots(p) ==
    {db_insert(EmptyDb, file_key(p), v) : v \in {IntactFile(p), Corrupt}}
Merge(a, b) == [k \in DOMAIN a \cup DOMAIN b |-> IF k \in DOMAIN a THEN a[k] ELSE b[k]]
Stores ==
    {Merge(Merge(a, b), c) : a \in PendingSlots(P_jpg) \cup FileSlots(P_jpg),
                             b \in PendingSlots(P_png) \cup FileSlots(P_png),
                             c \in PendingSlots(P_mp4)}

ListInit ==
    /\ content = [p \in Paths |-> 1]
    /\ db \in Stores
    /\ dest = [t \in TargetPaths |->
                 IF \E k \in DOMAIN db : db[k].kind = "file" /\ db[k].target_path = t
                 THEN [bytes |-> 1, complete |-> TRUE]
                 ELSE NoFile]
    /\ live = {}
    /\ disks = <<>>
    /\ faults = 0
    /\ op = "idle"
    /\ pc = "idle"
    /\ call = NoCall
    /\ batch = NoBatch
    /\ ret = NoRet
    /\ obs = NoObs
    /\ feed = NoFeed
    /\ run = NoRun

\* A listing returns `result`; the store is only read.
Listing(name, drive_uuid, result) ==
    /\ pc = "idle"
    /\ ret' = [NoRet EXCEPT !.op = name, !.drive_uuid = drive_uuid,
                            !.result = IF result.ok THEN Result("Ok", <<>>)
                                       ELSE Result("Err:State", <<>>),
                            !.list = result.value]
    /\ obs' = NoObs
    /\ UNCHANGED <<content, dest, live, disks, db, faults, op, pc, call, batch, feed, run>>

GetPendingSyncs(drive_uuid) ==
    Listing("get_pending_syncs", drive_uuid, get_pending_syncs(db, drive_uuid))
GetAllPendingSyncs ==
    Listing("get_all_pending_syncs", NoDrive, get_all_pending_syncs(db))
GetAllFileStates ==
    Listing("get_all_file_states", NoDrive, get_all_file_states(db))
\* cmd_status (main.rs lines 347-352) through SyncManager::get_stats.
GetSyncStats ==
    LET result == get_sync_stats(db) IN
    /\ pc = "idle"
    /\ ret' = [NoRet EXCEPT !.op = "get_sync_stats",
                            !.result = IF result.ok THEN Result("Ok", <<>>)
                                       ELSE Result("Err:State", <<>>),
                            !.stats = result.value]
    /\ obs' = NoObs
    /\ UNCHANGED <<content, dest, live, disks, db, faults, op, pc, call, batch, feed, run>>

ListNext ==
    \/ \E u \in DriveIds : GetPendingSyncs(u)
    \/ GetAllPendingSyncs
    \/ GetAllFileStates
    \/ GetSyncStats
    \/ \E u \in DriveIds : ProcessPendingSyncs(u) /\ UNCHANGED <<feed, run>>
    \/ SyncFileStart
    \/ SyncFileRoute
    \/ DrainItem
    \/ DrainReturn
ListSpec == ListInit /\ [][ListNext]_vars

\* cmd_status between the calls of DriveSpec, over the stores they leave.
StatsInit == DriveInit
StatsNext ==
    \/ DriveNext
    \/ GetSyncStats
StatsSpec == StatsInit /\ [][StatsNext]_vars

\* cmd_run (main.rs lines 291-344): one SyncManager behind a mutex, sync_file on
\* the watcher's events and the sweep on its timer.  A call that holds the mutex
\* runs on; the timer's task gets the mutex again and again (tokio's Mutex is
\* fair); and the watcher reports every change, so that a sync_file of the file
\* runs after its last change (here sync_file is called again and again, which
\* gives the engine no fewer chances).
WatcherEvent == \E p \in VolatilePaths : SyncOne(p) /\ UNCHANGED <<feed, run>>
TimerSweep == CheckAndSyncConnectedDrives /\ UNCHANGED <<feed, run>>
RunNext ==
    \/ Environment(VolatilePaths, {DiskImg})
    \/ WatcherEvent
    \/ TimerSweep
    \/ Steps
RunSpec ==
    /\ Init
    /\ [][RunNext]_vars
    /\ WF_vars(Steps)
    /\ SF_vars(WatcherEvent)
    /\ SF_vars(TimerSweep)

(***************************************************************************)
(* cmd_run with its tasks (main.rs lines 291-344) and the watcher          *)
(* (src/watcher/mod.rs): notify's callback sends each change to a std      *)
(* channel, process_events converts it and sends it to a tokio unbounded   *)
(* channel, the run loop receives it, locks the SyncManager and calls      *)
(* sync_file; the timer's task locks the SyncManager and sweeps.           *)
(***************************************************************************)
\* A channel of capacity one whose sender gives up when it is full.
send_when_empty(queue, event) == IF queue = <<>> THEN Append(queue, event) ELSE queue
\* Sender::send and UnboundedSender::send: the channels have no capacity limit.
send(queue, event) == Append(queue, event)

\* convert_event (watcher/mod.rs lines 103-121); NoEvent for None.
convert_event(event) ==
    CASE event.kind = "Create" -> FileEvent("Created", event.path, event.id)
      [] event.kind = "Modify" -> FileEvent("Modified", event.path, event.id)
      [] event.kind = "Remove" -> FileEvent("Removed", event.path, event.id)
      [] OTHER -> NoEvent

\* A mutex that lets every caller in.
can_lock_always(mutex) == TRUE
\* tokio's Mutex::lock().await goes on when the mutex is free.
can_lock(mutex) == mutex = "free"

\* A step of cmd_run's tasks or of the watcher leaves the files and the engine alone.
LoopFrame ==
    /\ ret' = NoRet
    /\ UNCHANGED <<content, dest, live, disks, db, faults, op, pc, call, batch, obs>>

\* The user writes a file and notify's callback reports it (lines 27-31).
FeedWrite(p, c) ==
    /\ feed.emitted < MaxEvents
    /\ WriteFile(p, c)
    /\ feed' = [feed EXCEPT
                  !.raw = send(@, FileEvent(IF content[p] = Absent THEN "Create" ELSE "Modify",
                                            p, feed.emitted + 1)),
                  !.emitted = @ + 1]
    /\ UNCHANGED run

FeedRemove(p) ==
    /\ feed.emitted < MaxEvents
    /\ RemoveFile(p)
    /\ feed' = [feed EXCEPT !.raw = send(@, FileEvent("Remove", p, feed.emitted + 1)),
                            !.emitted = @ + 1]
    /\ UNCHANGED run

\* process_events lines 73-88: one turn of the loop.
ProcessEvents ==
    /\ run.events # "off"
    /\ feed.raw # <<>>
    /\ LET file_event == convert_event(Head(feed.raw))
       IN feed' = [feed EXCEPT !.raw = Tail(@),
                               !.chan = IF file_event = NoEvent THEN @
                                        ELSE send(@, file_event)]
    /\ LoopFrame
    /\ UNCHANGED run

\* A run loop that forgets the records of a file reported as removed.
EventsRecv_forgetting_removed ==
    /\ run.events = "recv"
    /\ feed.chan # <<>>
    /\ LET event == Head(feed.chan)
       IN /\ run' = IF event.kind \in {"Created", "Modified"}
                    THEN [run EXCEPT !.events = "lock", !.event = event]
                    ELSE run
          /\ db' = IF event.kind = "Removed"
                   THEN remove_pending_sync(db_remove(db, file_key(event.path)), event.path)
                   ELSE db
    /\ feed' = [feed EXCEPT !.chan = Tail(@)]
    /\ ret' = NoRet
    /\ UNCHANGED <<content, dest, live, disks, faults, op, pc, call, batch, obs>>

\* main.rs lines 326-329 and 336-339: the run loop takes the next event.
EventsRecv ==
    /\ run.events = "recv"
    /\ feed.chan # <<>>
    /\ LET event == Head(feed.chan)
       IN run' = IF event.kind \in {"Created", "Modified"}
                 THEN [run EXCEPT !.events = "lock", !.event = event]
                 ELSE run
    /\ feed' = [feed EXCEPT !.chan = Tail(@)]
    /\ LoopFrame

\* main.rs lines 331-332: the lock is granted and sync_file called.
EventsLock ==
    /\ run.events = "lock"
    /\ can_lock(run.mutex)
    /\ SyncOne(run.event.path)
    /\ run' = [run EXCEPT !.events = "call", !.mutex = "events"]
    /\ UNCHANGED feed

\* main.rs lines 332-335: sync_file has returned and the guard is dropped.
EventsUnlock ==
    /\ run.events = "call"
    /\ pc = "idle"
    /\ run' = [run EXCEPT !.events = "recv", !.mutex = "free", !.event = NoEvent]
    /\ LoopFrame
    /\ UNCHANGED feed

\* main.rs lines 308-316: the timer fires, the lock is granted, the sweep called.
SweepLock ==
    /\ run.sweep = "sleep"
    /\ can_lock(run.mutex)
    /\ CheckAndSyncConnectedDrives
    /\ run' = [run EXCEPT !.sweep = "call", !.mutex = "sweep"]
    /\ UNCHANGED feed

\* A periodic task that ends, still holding the lock, when its sweep fails.
SweepUnlock_ending_on_error ==
    /\ run.sweep = "call"
    /\ pc = "idle"
    /\ ret.op = "check_and_sync_connected_drives"
    /\ ret.result.tag = "Ok"
    /\ run' = [run EXCEPT !.sweep = "sleep", !.mutex = "free"]
    /\ LoopFrame
    /\ UNCHANGED feed

\* main.rs lines 316-319: the sweep has returned and the guard is dropped.
SweepUnlock ==
    /\ run.sweep = "call"
    /\ pc = "idle"
    /\ run' = [run EXCEPT !.sweep = "sleep", !.mutex = "free"]
    /\ LoopFrame
    /\ UNCHANGED feed

LoopInit ==
    /\ content = [p \in Paths |-> IF p \in StartPaths THEN 1 ELSE Absent]
    /\ dest = [t \in TargetPaths |-> NoFile]
    /\ live = {}
    /\ disks = <<>>
    /\ db = EmptyDb
    /\ faults = 0
    /\ op = "idle"
    /\ pc = "idle"
    /\ call = NoCall
    /\ batch = NoBatch
    /\ ret = NoRet
    /\ obs = NoObs
    /\ feed = NoFeed
    /\ run = [NoRun EXCEPT !.events = "recv", !.sweep = "sleep"]

LoopNext ==
    \/ \E p \in VolatilePaths, c \in Contents : FeedWrite(p, c)
    \/ \E p \in VolatilePaths : FeedRemove(p)
    \/ Attach(DiskImg) /\ UNCHANGED <<feed, run>>
    \/ Detach(DiskImg) /\ UNCHANGED <<feed, run>>
    \/ ProcessEvents
    \/ EventsRecv
    \/ EventsLock
    \/ EventsUnlock
    \/ SweepLock
    \/ SweepUnlock
    \/ Steps

\* Every task runs on; tokio's Mutex grants the lock in the order of the
\* requests, so neither task is locked out for ever; the timer keeps firing.
LoopSpec ==
    /\ LoopInit
    /\ [][LoopNext]_vars
    /\ WF_vars(Steps)
    /\ WF_vars(ProcessEvents)
    /\ WF_vars(EventsRecv)
    /\ SF_vars(EventsLock)
    /\ WF_vars(EventsUnlock)
    /\ SF_vars(SweepLock)
    /\ WF_vars(SweepUnlock)

\* cmd_clear (main.rs lines 383-395): without --confirm nothing is done and Ok
\* is returned; otherwise the store is opened and wiped.  A wipe that fails
\* may have removed any of the keys (sled's clear is not atomic).
ClearAll ==
    /\ pc = "idle"
    /\ \E confirm \in BOOLEAN, f \in Outcomes({"open", "clear"}) :
        /\ Spend(f)
        /\ IF ~confirm
           THEN /\ f = "ok"
                /\ db' = db
                /\ ret' = [NoRet EXCEPT !.op = "cmd_clear", !.result = Result("Ok", <<>>)]
           ELSE IF f = "open"
           THEN /\ db' = db
                /\ ret' = [NoRet EXCEPT !.op = "cmd_clear",
                                        !.result = Result("Err:State", <<>>)]
           ELSE IF f = "clear"
           THEN /\ db' \in {[k \in keys |-> db[k]] : keys \in SUBSET DOMAIN db}
                /\ ret' = [NoRet EXCEPT !.op = "clear_all",
                                        !.result = Result("Err:State", <<>>)]
           ELSE /\ db' = clear_all(db)
                /\ ret' = [NoRet EXCEPT !.op = "clear_all", !.result = Result("Ok", <<>>)]
    /\ obs' = [NoObs EXCEPT !.db0 = db]
    /\ UNCHANGED <<content, dest, live, disks, op, pc, call, batch, feed, run>>

\* The wipe between sync_file calls on a file of each drive, the disk of the
\* first drive coming and going and that of the second staying away.
ClearInit == DriveInit
ClearNext ==
    \/ Attach(DiskImg) /\ UNCHANGED <<feed, run>>
    \/ Detach(DiskImg) /\ UNCHANGED <<feed, run>>
    \/ \E p \in {P_jpg, P_mp4} : SyncOne(p) /\ UNCHANGED <<feed, run>>
    \/ ClearAll
    \/ SyncFileStart
    \/ SyncFileRoute
    \/ SyncFileCopied
ClearSpec == ClearInit /\ [][ClearNext]_vars

\* sync_file and the drain of either drive, with a file of each drive and the
\* disks of both drives coming and going.
FrameInit == DriveInit
FrameNext ==
    \/ \E d \in {DiskImg, DiskVid} : Attach(d) /\ UNCHANGED <<feed, run>>
    \/ \E d \in {DiskImg, DiskVid} : Detach(d) /\ UNCHANGED <<feed, run>>
    \/ \E p \in {P_jpg, P_mp4} : SyncOne(p) /\ UNCHANGED <<feed, run>>
    \/ \E u \in DriveIds : ProcessPendingSyncs(u) /\ UNCHANGED <<feed, run>>
    \/ SyncFileStart
    \/ SyncFileRoute
    \/ SyncFileCopied
    \/ DrainItem
    \/ DrainReturn
FrameSpec == FrameInit /\ [][FrameNext]_vars

\* cmd_run with up to MaxFaults failures of the file system and the store.
LoopFaultInit ==
    /\ content = [p \in Paths |-> IF p \in StartPaths THEN 1 ELSE Absent]
    /\ dest = [t \in TargetPaths |-> NoFile]
    /\ live = {}
    /\ disks = <<>>
    /\ db = EmptyDb
    /\ faults = MaxFaults
    /\ op = "idle"
    /\ pc = "idle"
    /\ call = NoCall
    /\ batch = NoBatch
    /\ ret = NoRet
    /\ obs = NoObs
    /\ feed = NoFeed
    /\ run = [NoRun EXCEPT !.events = "recv", !.sweep = "sleep"]
LoopFaultNext == LoopNext
LoopFaultSpec ==
    /\ LoopFaultInit
    /\ [][LoopFaultNext]_vars
    /\ WF_vars(Steps)
    /\ WF_vars(ProcessEvents)
    /\ WF_vars(EventsRecv)
    /\ SF_vars(EventsLock)
    /\ WF_vars(EventsUnlock)
    /\ SF_vars(SweepLock)
    /\ WF_vars(SweepUnlock)

(***************************************************************************)
(* Properties.  A public operation's return is the state in which `ret`    *)
(* holds its value; `obs` tells what happened while it ran.                *)
(***************************************************************************)
\* The disk that carries a configured drive, and whether it is attached.
DiskOf(drive_uuid) == IF drive_uuid = DriveImg THEN DiskImg ELSE DiskVid
Reachable(drive_uuid) == DiskOf(drive_uuid) \in live
Unreachable(drive_uuid) == DiskOf(drive_uuid) \notin live
DriveOf(p) == find_drive_for_category(classify_by_extension(p))
\* The store holds a FileRecord of p's present content.
Fresh(store, p) ==
    content[p] # Absent /\ is_file_synced(store, p, calculate_file_hash(content[p]))
\* The source paths of the drive's pending records.
PendingPaths(store, drive_uuid) ==
    LET pending_syncs == get_pending_syncs(store, drive_uuid).value
    IN {pending_syncs[i].source_path : i \in DOMAIN pending_syncs}
\* The records under the "file:" keys, as get_all_file_states lists them.
FileRecordsIn(store) == scan_prefix(store, FilePrefix)

\* C1: when sync_file on a path returns and the path's content has not changed
\* since the call began, the path does not hold both a PendingRecord and a
\* FileRecord of its present content.
C1_PendingSyncedExclusive ==
    \A p \in Paths :
        (ret.op = "sync_file" /\ ret.path = p /\ p \notin obs.files)
            => ~(PendingRecords(db, p) # {} /\ Fresh(db, p))

\* C2: a sync_file that follows at once a sync_file of the same file that
\* returned Synced, the file's content unchanged throughout, returns
\* AlreadySynced, begins no copy and leaves exactly one FileRecord for the path.
C2_Idempotence ==
    (ret.op = "sync_file" /\ obs.again /\ ret.path \notin obs.files)
        => /\ ret.result.tag = "AlreadySynced"
           /\ ret.path \notin obs.copied
           /\ Cardinality(FileRecords(db, ret.path)) = 1

\* The second of two such calls has returned, the drive reachable all along.
C2_Witness ==
    /\ ret.op = "sync_file"
    /\ obs.again
    /\ ret.path \notin obs.files
    /\ ~obs.disks
    /\ Reachable(DriveOf(ret.path))
    /\ ret.result.tag = "AlreadySynced"

\* C3: when the store holds a FileRecord for a file whose content now hashes
\* otherwise, and the file's drive is reachable, a sync_file of the file (its
\* content and the disks left alone during the call) returns Synced, has copied,
\* and leaves the FileRecord's hash equal to the hash of the new content.
C3_HashGatedResync ==
    \A p \in Paths :
        ( /\ ret.op = "sync_file" /\ ret.path = p
          /\ p \notin obs.files /\ ~obs.disks
          /\ content[p] # Absent
          /\ get_file_state(obs.db0, p).kind = "file"
          /\ get_file_state(obs.db0, p).hash # calculate_file_hash(content[p])
          /\ Reachable(DriveOf(p)) )
            => /\ ret.result.tag = "Synced"
               /\ p \in obs.copied
               /\ get_file_state(db, p).kind = "file"
               /\ get_file_state(db, p).hash = calculate_file_hash(content[p])

\* A changed file with an older FileRecord has been synchronized again.
C3_Witness ==
    /\ ret.op = "sync_file"
    /\ ret.path \notin obs.files /\ ~obs.disks
    /\ get_file_state(obs.db0, ret.path).kind = "file"
    /\ get_file_state(obs.db0, ret.path).hash # calculate_file_hash(content[ret.path])
    /\ ret.result.tag = "Synced"
    /\ get_file_state(db, ret.path).hash = calculate_file_hash(content[ret.path])

\* C4: the store never holds more than one PendingRecord for a path.
C4_NoDuplicatePending ==
    \A p \in Paths : Cardinality(PendingRecords(db, p)) <= 1

\* sync_file has returned Pending for a path that already had a PendingRecord,
\* of another content.
C4_Witness ==
    /\ ret.op = "sync_file"
    /\ ret.result.tag = "Pending"
    /\ db_get(obs.db0, pending_key(ret.path)).kind = "pending"
    /\ db_get(obs.db0, pending_key(ret.path)).hash # db_get(db, pending_key(ret.path)).hash
    /\ Cardinality(PendingRecords(db, ret.path)) = 1

\* C5: when process_pending_syncs(D) returns, D reachable and the files and
\* disks left alone during the call, every path that had a PendingRecord for D
\* and whose file exists has a FileRecord of its content and no PendingRecord.
C5_DrainReachable ==
    \A p \in Paths :
        ( /\ ret.op = "process_pending_syncs"
          /\ ret.result.tag = "Ok"
          /\ p \in PendingPaths(obs.db0, ret.drive_uuid)
          /\ content[p] # Absent
          /\ obs.files = {} /\ ~obs.disks
          /\ Reachable(ret.drive_uuid) )
            => Fresh(db, p) /\ PendingRecords(db, p) = {}

\* process_pending_syncs(D) has returned, D unreachable and the files and disks
\* left alone during the call, every pending source file of D in place.
DrainedUnreachable ==
    /\ ret.op = "process_pending_syncs"
    /\ obs.files = {} /\ ~obs.disks
    /\ Unreachable(ret.drive_uuid)
    /\ \A p \in PendingPaths(obs.db0, ret.drive_uuid) : content[p] # Absent

C7_DanglingCleanup ==
    \A p \in Paths :
        ( /\ ret.op = "process_pending_syncs"
          /\ p \in PendingPaths(obs.db0, ret.drive_uuid)
          /\ content[p] = Absent
          /\ p \notin obs.files )
            => /\ PendingRecords(db, p) = {}
               /\ p \notin obs.copied
               /\ get_file_state(db, p) = get_file_state(obs.db0, p)

\* A dangling PendingRecord was drained while its drive was reachable.
C7_Witness ==
    /\ ret.op = "process_pending_syncs"
    /\ \E p \in PendingPaths(obs.db0, ret.drive_uuid) :
        content[p] = Absent /\ p \notin obs.files
    /\ Reachable(ret.drive_uuid)

\* C8: under RunSpec, whenever the watched file has a PendingRecord and from
\* then on its drive's disk stays attached and the file keeps one content, the
\* file eventually has no PendingRecord and a FileRecord of that content.
C8_EventualDrain ==
    \A c \in Contents :
        [](( /\ PendingRecords(db, P_jpg) # {}
             /\ [](DiskImg \in live /\ content[P_jpg] = c) )
            => <>( /\ PendingRecords(db, P_jpg) = {}
                   /\ is_file_synced(db, P_jpg, calculate_file_hash(c)) ))

\* C9: a step changes the FileRecords only when it ends a copy that succeeded,
\* and a sync_file that returns anything but Synced or the failure of a store
\* call returns with the FileRecords it found.
C9_FileRecordOnlyAfterCopy ==
    [][ /\ FileRecordsIn(db') # FileRecordsIn(db)
            => /\ pc = "copying"
               /\ call.path \in obs.copied
               /\ dest'[call.target_path].complete
               /\ dest'[call.target_path].bytes # Absent
        /\ (ret'.op = "sync_file" /\ ret'.result.tag \notin {"Synced", "Err:State"})
            => FileRecordsIn(db') = FileRecordsIn(obs'.db0) ]_vars

\* A copy failed half way, and the path's older FileRecord is still there.
C9_Witness ==
    /\ ret.op = "sync_file"
    /\ ret.result.tag = "Err:Copy"
    /\ ret.path \in obs.copied
    /\ get_file_state(db, ret.path).kind = "file"
    /\ ~dest[get_file_state(db, ret.path).target_path].complete

\* C10: every FileRecord's hash is the hash of the bytes of the completed copy
\* at its target path.
C10_HashOfCopiedBytes ==
    \A k \in DOMAIN db :
        (db[k].kind = "file" /\ dest[db[k].target_path].complete)
            => db[k].hash = calculate_file_hash(dest[db[k].target_path].bytes)

\* C11: a sync_file of a file whose FileRecord holds the hash of its content
\* (the content left alone during the call) returns AlreadySynced, has begun no
\* copy and leaves the store as it was, whether or not the drive is reachable.
C11_AlreadySyncedNoWrite ==
    \A p \in Paths :
        ( /\ ret.op = "sync_file" /\ ret.path = p
          /\ p \notin obs.files
          /\ content[p] # Absent
          /\ db_get(obs.db0, file_key(p)).kind = "file"
          /\ db_get(obs.db0, file_key(p)).hash = calculate_file_hash(content[p]) )
            => /\ ret.result.tag = "AlreadySynced"
               /\ p \notin obs.copied
               /\ db = obs.db0

\* Such a call has returned while the drive's disk was away.
C11_Witness ==
    /\ ret.op = "sync_file"
    /\ ret.path \notin obs.files /\ ~obs.disks
    /\ content[ret.path] # Absent
    /\ db_get(obs.db0, file_key(ret.path)).kind = "file"
    /\ db_get(obs.db0, file_key(ret.path)).hash = calculate_file_hash(content[ret.path])
    /\ Unreachable(DriveOf(ret.path))
    /\ ret.result.tag = "AlreadySynced"

\* C12: the file at a destination path is never a partial copy.
C12_NeverPartial ==
    \A t \in TargetPaths : dest[t].complete

\* C13: in cmd_run the two tasks are never both inside a call on the
\* SyncManager, and whatever the engine is doing is done for the task that holds
\* the mutex: a sync_file for an event under the run loop's lock, a sweep (and
\* the sync_file calls it makes) under the timer task's lock.
C13_SyncFileSerialized ==
    /\ ~(run.events = "call" /\ run.sweep = "call")
    /\ op = "sync_file" => (run.mutex = "events" /\ run.events = "call")
    /\ op = "check_and_sync_connected_drives" => (run.mutex = "sweep" /\ run.sweep = "call")

\* The sweep is inside sync_file for a path while the run loop, holding an
\* event for the same path, waits for the lock.
C13_Witness ==
    /\ op = "check_and_sync_connected_drives"
    /\ pc \in {"start", "hashed", "copying"}
    /\ run.mutex = "sweep"
    /\ run.events = "lock"
    /\ run.event.path = call.path

\* The events emitted and not yet handed to sync_file or discarded, oldest first.
InFlight ==
    (IF run.events = "lock" THEN <<run.event>> ELSE <<>>) \o feed.chan \o feed.raw

\* C14: under LoopSpec the events in flight are always all the events emitted
\* since the oldest of them, in the order of their emission, whatever the engine
\* is doing; and every Create or Modify that notify reports is eventually the
\* event with which the run loop calls sync_file.
C14_EventsQueuedAndHandled ==
    /\ [](\A i \in DOMAIN InFlight :
            InFlight[i].id = feed.emitted - Len(InFlight) + i)
    /\ \A id \in 1..MaxEvents :
        [](( \E i \in DOMAIN feed.raw :
                feed.raw[i].id = id /\ feed.raw[i].kind \in {"Create", "Modify"} )
            => <>( /\ run.events = "call" /\ run.event.id = id
                   /\ op = "sync_file" /\ pc = "start"
                   /\ call.path = run.event.path ))

\* A copy is in progress for one event while the next event for the same file
\* has reached the run loop's channel.
C14_Witness ==
    /\ pc = "copying"
    /\ run.events = "call"
    /\ feed.chan # <<>>
    /\ Head(feed.chan).path = call.path
    /\ Head(feed.chan).id = run.event.id + 1

(***************************************************************************)
(* C15.  When sync_all returns a summary, its five counters add up to the  *)
(* number of files collect_files returned; and while it runs, the files    *)
(* counted so far, the file in hand and the files still to come are the    *)
(* collected files, each once and in their order.                          *)
(***************************************************************************)
C15_SummaryCountsEveryFile ==
    /\ (ret.op = "sync_all" /\ ret.result.tag = "Ok")
          => total(ret.summary) = Len(obs.found)
    /\ op = "sync_all"
          => LET todo == <<call.path>> \o batch.files
                 done == total(batch.summary)
             IN  /\ done + Len(todo) = Len(obs.found)
                 /\ \A i \in 1..Len(todo) : todo[i] = obs.found[done + i]
                 /\ \A i, j \in 1..Len(obs.found) :
                        obs.found[i] = obs.found[j] => i = j

\* A sync_all has returned a summary with a synced, a pending, a skipped and a
\* failed file.
C15_Witness ==
    /\ ret.op = "sync_all"
    /\ ret.result.tag = "Ok"
    /\ ret.summary.synced > 0
    /\ ret.summary.pending > 0
    /\ ret.summary.skipped > 0
    /\ ret.summary.failed > 0
    /\ total(ret.summary) = Len(obs.found)

(***************************************************************************)
(* C16.  A batch in which sync_file failed for a file has gone on to the   *)
(* end and returned success: sync_all has handled every collected file and *)
(* counts the failures under failed; process_pending_syncs has handled     *)
(* every pending record of the drive, in their order, and returns their    *)
(* number; the sweep returns success.                                      *)
(***************************************************************************)
Failures(log) == {i \in 1..Len(log) : log[i].level = "error"}

C16_BadFileDoesNotAbort ==
    (ret.op \in {"sync_all", "process_pending_syncs", "check_and_sync_connected_drives"}
       /\ Failures(ret.log) # {})
    => /\ ret.result.tag = "Ok"
       /\ ret.op = "sync_all"
            => /\ ret.summary.failed = Cardinality(Failures(ret.log))
               /\ total(ret.summary) = Len(obs.found)
       /\ ret.op = "process_pending_syncs"
            => /\ ret.count = Len(ret.log)
               /\ [i \in 1..Len(ret.log) |-> ret.log[i].path]
                     = InByteOrder(PendingPaths(obs.db0, ret.drive_uuid))

\* process_pending_syncs has returned after a batch of two records in which
\* sync_file failed for the first and synced the second.
C16_Witness ==
    /\ ret.op = "process_pending_syncs"
    /\ ret.result.tag = "Ok"
    /\ ret.count = 2
    /\ \E e \in {"Err:NotFound", "Err:Copy"} :
         ret.log = <<LogLine("error", P_jpg, e), LogLine("info", P_png, "")>>
    /\ FileRecords(db, P_png) # {}
    /\ FileRecords(obs.db0, P_png) = {}

(***************************************************************************)
(* C17.  A directory or an entry that cannot be read does not make         *)
(* sync_all fail: sync_all returns a summary, never the enumeration's      *)
(* error.                                                                  *)
(***************************************************************************)
C17_UnreadableSkipped ==
    ret.op = "sync_all" => /\ ret.result.tag # "Err:ReadDir"
                           /\ ret.result.tag = "Ok"

(***************************************************************************)
(* C18.  A failure of the store during sync_all, process_pending_syncs or  *)
(* the sweep ends the batch with that error: no batch logs a store error   *)
(* as the failure of one file and goes on to the next or returns success.  *)
(***************************************************************************)
StoreErrors(log) == {i \in 1..Len(log) : log[i].error = "Err:State"}

C18_StoreFailureFatal ==
    /\ StoreErrors(batch.log) = {}
    /\ StoreErrors(ret.log) # {} => ret.result.tag = "Err:State"

(***************************************************************************)
(* C19.  A stored value that does not decode does not make a listing       *)
(* fail: get_pending_syncs, get_all_pending_syncs and get_all_file_states  *)
(* return the records that decode, in key order, get_sync_stats counts     *)
(* them, and process_pending_syncs handles the drive's pending records     *)
(* that decode.                                                            *)
(***************************************************************************)
Decodable(store, prefix, kind) ==
    SelectSeq(scan_prefix(store, prefix), LAMBDA v : v.kind = kind)
DecodablePendings(store, drive_uuid) ==
    SelectSeq(Decodable(store, PendingPrefix, "pending"),
              LAMBDA v : v.target_drive = drive_uuid)
Listings ==
    {"get_pending_syncs", "get_all_pending_syncs", "get_all_file_states",
     "get_sync_stats", "process_pending_syncs"}

C19_CorruptRecordSkipped ==
    ret.op \in Listings
    => /\ ret.result.tag = "Ok"
       /\ ret.op = "get_pending_syncs"
            => ret.list = DecodablePendings(db, ret.drive_uuid)
       /\ ret.op = "get_all_pending_syncs"
            => ret.list = Decodable(db, PendingPrefix, "pending")
       /\ ret.op = "get_all_file_states"
            => ret.list = Decodable(db, FilePrefix, "file")
       /\ ret.op = "get_sync_stats"
            => /\ ret.stats.total_files = Len(Decodable(db, FilePrefix, "file"))
               /\ ret.stats.pending_syncs = Len(Decodable(db, PendingPrefix, "pending"))
       /\ ret.op = "process_pending_syncs"
            => ret.count = Len(DecodablePendings(obs.db0, ret.drive_uuid))

(***************************************************************************)
(* C20.  A sync_file that returns Pending returns it with the configured   *)
(* key of the route's drive, which is not the drive's label, and the store *)
(* then holds for the path a pending record with that key as its target    *)
(* drive, the path's category and, the file not having changed during the  *)
(* call, the hash of its present content.                                  *)
(***************************************************************************)
C20_PendingCarriesDriveKey ==
    (ret.op = "sync_file" /\ ret.result.tag = "Pending")
    => LET p == ret.path
           pending == db_get(db, pending_key(p))
       IN  /\ ret.result.arg = DriveOf(p)
           /\ pending.kind = "pending"
           /\ pending.target_drive = ret.result.arg
           /\ pending.file_category = classify_by_extension(p)
           /\ p \notin obs.files => pending.hash = calculate_file_hash(content[p])

(***************************************************************************)
(* C21.  A sync_file that returns Synced returns the path <mount point of  *)
(* the drive>/<category>/<source path relative to the source root, or the  *)
(* whole source path when it is not under the root>; the file record of    *)
(* the path has that target path and the key of the route's drive; and,    *)
(* the file not having changed during the call, the bytes at that path     *)
(* are the source's.                                                       *)
(***************************************************************************)
WithoutRoot(p) == IF is_absolute(p) THEN Tail(p) ELSE p
Destination(p) ==
    LET category == classify_by_extension(p)
        relative == IF starts_with(p, SourceRoot)
                    THEN SubSeq(p, Len(SourceRoot) + 2, Len(p))
                    ELSE WithoutRoot(p)
    IN  DiskOf(DriveOf(p)).mount_point \o <<"/">> \o category \o <<"/">> \o relative

C21_DestinationPath ==
    (ret.op = "sync_file" /\ ret.result.tag = "Synced")
    => LET p == ret.path
           state == get_file_state(db, p)
       IN  /\ ret.result.arg = Destination(p)
           /\ state.kind = "file"
           /\ state.target_path = Destination(p)
           /\ state.target_drive = DriveOf(p)
           /\ resolve(p) \notin obs.files
                => /\ Destination(p) \in DOMAIN dest
                   /\ dest[Destination(p)].bytes = content[resolve(p)]

(***************************************************************************)
(* C22.  The rule of reachability: a drive with a configured mount path is *)
(* reachable exactly when an attached disk is mounted at that path; a      *)
(* drive without one exactly when the name of an attached disk contains    *)
(* the drive's label, letter case apart.  No disk being attached or        *)
(* detached during the call, sync_file returns Pending when the drive of   *)
(* the file is not reachable by this rule, and copies when it is.          *)
(***************************************************************************)
ReachableByRule(drive_uuid) ==
    LET drive_config == ConfigDrives[drive_uuid] IN
    IF drive_config.path # NoPath
    THEN \E d \in live : d.mount_point = drive_config.path
    ELSE \E d \in live : contains(to_lowercase(d.name), to_lowercase(drive_config.label))

C22_ReachabilityRule ==
    (ret.op = "sync_file" /\ ~obs.disks)
    => /\ ret.result.tag = "Pending" => ~ReachableByRule(DriveOf(ret.path))
       /\ ret.result.tag = "Synced" => ReachableByRule(DriveOf(ret.path))

(***************************************************************************)
(* C23.  Reachability is decided on a list of disks made during the call.  *)
(* No disk being attached or detached during the call: the list sync_file  *)
(* and the sweep decide on holds exactly the disks attached, and sync_file *)
(* returns Pending only when no attached disk answers for the drive and    *)
(* Synced only when one does.                                              *)
(***************************************************************************)
Listed(snapshot) == {snapshot[i] : i \in DOMAIN snapshot}
Answers(d, drive_uuid) ==
    LET drive_config == ConfigDrives[drive_uuid] IN
    IF drive_config.path # NoPath
    THEN d.mount_point = drive_config.path
    ELSE LabelMatches(d, drive_config.label)
Decided ==
    \/ pc = "copying"
    \/ op = "check_and_sync_connected_drives"

C23_ReachabilityNotCached ==
    ~obs.disks
    => /\ Decided => Listed(disks) = live
       /\ ret.op = "sync_file"
            => /\ ret.result.tag = "Pending"
                    => ~\E d \in live : Answers(d, DriveOf(ret.path))
               /\ ret.result.tag = "Synced"
                    => \E d \in live : Answers(d, DriveOf(ret.path))

\* A sync_file has copied a file that an earlier call had left pending, the
\* disk attached since and before this call began.
C23_Witness ==
    /\ ret.op = "sync_file"
    /\ ret.result.tag = "Synced"
    /\ ~obs.disks
    /\ PendingRecords(obs.db0, ret.path) # {}
    /\ \E d \in live : Answers(d, DriveOf(ret.path))

(***************************************************************************)
(* C24.  The sweep decides for every configured drive as sync_file does    *)
(* and drains the drives it finds connected.  No disk being attached or    *)
(* detached during the sweep: every pending record of a drive an attached  *)
(* disk answers for has been handled, and of a drive no attached disk      *)
(* answers for none has been handled and all are in the store as before.   *)
(***************************************************************************)
Handled(log) == {log[i].path : i \in DOMAIN log}
Swept ==
    /\ ret.op = "check_and_sync_connected_drives"
    /\ ret.result.tag = "Ok"
    /\ ~obs.disks

C24_SweepDrainsConnected ==
    Swept
    => \A u \in DriveIds :
         LET paths == PendingPaths(obs.db0, u) IN
         IF \E d \in live : Answers(d, u)
         THEN paths \subseteq Handled(ret.log)
         ELSE /\ paths \cap Handled(ret.log) = {}
              /\ \A p \in paths :
                    db_get(db, pending_key(p)) = db_get(obs.db0, pending_key(p))

\* A sweep has drained the pending records of one drive and left those of the
\* other, whose disk is away.
C24_Witness ==
    /\ Swept
    /\ \E u, v \in DriveIds :
         /\ \E d \in live : Answers(d, u)
         /\ PendingPaths(obs.db0, u) # {}
         /\ PendingPaths(db, u) = {}
         /\ ~\E d \in live : Answers(d, v)
         /\ PendingPaths(obs.db0, v) # {}
         /\ PendingPaths(db, v) = PendingPaths(obs.db0, v)

(***************************************************************************)
(* C25.  The early exits of sync_file, in their order: a file that is not  *)
(* there fails as not found; else a file of unknown type is skipped; else  *)
(* a file whose category no drive takes fails for want of a drive; a file  *)
(* that is there, of a known type and with a drive, leaves by none of      *)
(* them.  After each of the three nothing was copied and the store is as   *)
(* it was before the call.                                                 *)
(***************************************************************************)
HasRoute(category) == \E u \in DriveIds : ConfigDrives[u].target = category
EarlyExit(p) ==
    IF content[resolve(p)] = Absent THEN "Err:NotFound"
    ELSE IF classify_by_extension(p) = Unknown THEN "Skipped"
    ELSE IF ~HasRoute(classify_by_extension(p)) THEN "Err:NoDrive"
    ELSE "none"
EarlyExits == {"Err:NotFound", "Skipped", "Err:NoDrive"}

C25_EarlyExits ==
    ret.op = "sync_file"
    => /\ resolve(ret.path) \notin obs.files
            => IF EarlyExit(ret.path) = "none"
               THEN ret.result.tag \notin EarlyExits
               ELSE ret.result.tag = EarlyExit(ret.path)
       /\ ret.result.tag \in EarlyExits
            => /\ db = obs.db0
               /\ obs.copied = {}

\* sync_file has failed for want of a drive over a store that holds records;
\* a file of unknown type is missing.
C25_Witness ==
    /\ ret.op = "sync_file"
    /\ ret.result.tag = "Err:NoDrive"
    /\ db # EmptyDb
    /\ db = obs.db0
    /\ content[P_xyz] = Absent

(***************************************************************************)
(* C26.  A sync_file whose copy fails returns the failure at once and      *)
(* leaves the store as it was, without a new file record.  The next        *)
(* sync_file of the file, the file unchanged meanwhile, does not return    *)
(* AlreadySynced, and begins the copy again when the disk of the drive is  *)
(* attached throughout and the call does not fail before its copy.         *)
(***************************************************************************)
FailuresBeforeCopy == {"Err:Classify", "Err:Hash", "Err:State", "Err:Mkdir"}

C26_FailedCopyRetriedByNextCall ==
    ret.op = "sync_file"
    => /\ ret.result.tag = "Err:Copy" => db = obs.db0
       /\ (obs.retry /\ ret.path \notin obs.files)
            => /\ ret.result.tag # "AlreadySynced"
               /\ ( /\ Reachable(DriveOf(ret.path))
                    /\ ~obs.disks
                    /\ ret.result.tag \notin FailuresBeforeCopy )
                    => ret.path \in obs.copied

\* The call that follows a failed copy has copied the file.
C26_Witness ==
    /\ ret.op = "sync_file"
    /\ obs.retry
    /\ ret.path \in obs.copied
    /\ ret.result.tag = "Synced"
    /\ Fresh(db, ret.path)

(***************************************************************************)
(* C27.  process_pending_syncs returns the number of pending records the   *)
(* store held for the drive when the call listed them, whatever became of  *)
(* each record; 0 when it held none.                                       *)
(***************************************************************************)
PendingKeysOf(store, drive_uuid) ==
    {k \in DOMAIN store : store[k].kind = "pending" /\ store[k].target_drive = drive_uuid}

C27_DrainCountsListedRecords ==
    (ret.op = "process_pending_syncs" /\ ret.result.tag = "Ok")
    => ret.count = Cardinality(PendingKeysOf(obs.db0, ret.drive_uuid))

\* A drain has returned 2 after two records of which one was removed with its
\* file gone or failed, and the other was synced.
C27_Witness ==
    /\ ret.op = "process_pending_syncs"
    /\ ret.result.tag = "Ok"
    /\ ret.count = 2
    /\ Cardinality(PendingKeysOf(obs.db0, ret.drive_uuid)) = 2
    /\ ret.log[1].level \in {"warn", "error"}
    /\ ret.log[2].level = "info"
    /\ Fresh(db, ret.log[2].path)

(***************************************************************************)
(* C28.  The store holds at most one file record and at most one pending   *)
(* record for a file, under whatever names the file was given to           *)
(* sync_file.                                                              *)
(***************************************************************************)
RecordsOfFile(store, kind, file) ==
    {k \in DOMAIN store :
        store[k].kind = kind /\ resolve(store[k].source_path) = file}

C28_OneRecordPerFile ==
    \A file \in Paths :
        /\ Cardinality(RecordsOfFile(db, "file", file)) <= 1
        /\ Cardinality(RecordsOfFile(db, "pending", file)) <= 1

(***************************************************************************)
(* C29.  The store's writes are upserts keyed by the source path.  After   *)
(* save_file_state(r): saving r again changes nothing, get_file_state of   *)
(* r's path returns r, the store holds one file record for the path, and   *)
(* every other key is as before; likewise for add_pending_sync.  After     *)
(* remove_pending_sync the path has no pending record, every other key is  *)
(* as before, and a store that held none for the path is unchanged.        *)
(***************************************************************************)
OthersKept(key) ==
    /\ DOMAIN db \cup {key} = DOMAIN obs.db0 \cup {key}
    /\ \A k \in DOMAIN db \ {key} : db[k] = obs.db0[k]

C29_UpsertsByPath ==
    /\ ret.op = "save_file_state"
         => LET r == ret.list[1] IN
            /\ save_file_state(db, r) = db
            /\ get_file_state(db, ret.path) = r
            /\ Cardinality(FileRecords(db, ret.path)) = 1
            /\ OthersKept(FilePrefix \o ret.path)
    /\ ret.op = "add_pending_sync"
         => LET r == ret.list[1] IN
            /\ add_pending_sync(db, r) = db
            /\ db_get(db, PendingPrefix \o ret.path) = r
            /\ Cardinality(PendingRecords(db, ret.path)) = 1
            /\ OthersKept(PendingPrefix \o ret.path)
    /\ ret.op = "remove_pending_sync"
         => /\ ret.result.tag = "Ok"
            /\ PendingRecords(db, ret.path) = {}
            /\ OthersKept(PendingPrefix \o ret.path)
            /\ PendingRecords(obs.db0, ret.path) = {} => db = obs.db0

\* save_file_state has replaced the record of a path that had another one,
\* next to a pending record of the same path and the records of another path.
C29_Witness ==
    /\ ret.op = "save_file_state"
    /\ FileRecords(obs.db0, ret.path) # {}
    /\ get_file_state(obs.db0, ret.path) # ret.list[1]
    /\ get_file_state(db, ret.path) = ret.list[1]
    /\ PendingRecords(db, ret.path) # {}
    /\ Cardinality(DOMAIN db) = 4

(***************************************************************************)
(* C30.  get_sync_stats over a store the program has written: total_files  *)
(* is the number of file records, total_size the sum of their sizes,       *)
(* pending_syncs the number of pending records of all drives, and          *)
(* by_category counts the file records of each category, its counts adding *)
(* up to total_files; pending records count in pending_syncs only.         *)
(***************************************************************************)
KeysOfKind(kind) == {k \in DOMAIN db : db[k].kind = kind}
RECURSIVE SizeOfRecords(_)
SizeOfRecords(keys) ==
    IF keys = {} THEN 0
    ELSE LET k == CHOOSE x \in keys : TRUE IN db[k].size + SizeOfRecords(keys \ {k})
RECURSIVE SumOfCounts(_, _)
SumOfCounts(counts, categories) ==
    IF categories = {} THEN 0
    ELSE LET c == CHOOSE x \in categories : TRUE
         IN counts[c] + SumOfCounts(counts, categories \ {c})

C30_StatsCountRecords ==
    ret.op = "get_sync_stats"
    => /\ ret.result.tag = "Ok"
       /\ ret.stats.total_files = Cardinality(KeysOfKind("file"))
       /\ ret.stats.total_size = SizeOfRecords(KeysOfKind("file"))
       /\ ret.stats.pending_syncs = Cardinality(KeysOfKind("pending"))
       /\ DOMAIN ret.stats.by_category = {db[k].file_category : k \in KeysOfKind("file")}
       /\ \A c \in DOMAIN ret.stats.by_category :
             ret.stats.by_category[c] =
                Cardinality({k \in KeysOfKind("file") : db[k].file_category = c})
       /\ SumOfCounts(ret.stats.by_category, DOMAIN ret.stats.by_category)
             = ret.stats.total_files

\* The statistics of a store that holds a file record and a pending record.
C30_Witness ==
    /\ ret.op = "get_sync_stats"
    /\ ret.result.tag = "Ok"
    /\ ret.stats.total_files >= 1
    /\ ret.stats.pending_syncs >= 1
    /\ ret.stats.total_size >= 1

\* C31: clear_all removes every FileRecord and every PendingRecord: in the
\* state it leaves, get_sync_stats reports no file, no byte and no pending
\* record, get_pending_syncs is empty for every drive, and a sync_file that
\* follows at once, of a file that was synced before the wipe and has not
\* changed, does not return AlreadySynced.
C31_ClearAllWipes ==
    /\ (ret.op = "clear_all" /\ ret.result.tag = "Ok")
         => /\ get_sync_stats(db) = Ok(SyncStats(0, 0, 0, <<>>))
            /\ \A u \in DriveIds : get_pending_syncs(db, u) = Ok(<<>>)
            /\ FileRecordsIn(db) = <<>>
    /\ (ret.op = "sync_file" /\ ret.path \in obs.cleared /\ ret.path \notin obs.files)
         => ret.result.tag # "AlreadySynced"

\* A file that was synced and has not changed is synced once more after the
\* wipe, which also removed the pending record of the other file.
C31_Witness ==
    /\ ret.op = "sync_file" /\ ret.path = P_jpg
    /\ P_jpg \in obs.cleared
    /\ obs.db0 = EmptyDb
    /\ P_jpg \notin obs.files
    /\ ret.result.tag = "Synced"
    /\ P_jpg \in obs.copied
    /\ dest[target_path_of(DiskImg.mount_point, Images, P_jpg)].bytes = content[P_jpg]

(***************************************************************************)
(* C32.  When several attached disks match the label of a drive that has   *)
(* no configured path, sync_file uses the first of them in the order of    *)
(* the detector's list: the list the call decided reachability on holds a  *)
(* match, and the destination of the copy lies under the mount point of    *)
(* the first match of that same list.                                      *)
(***************************************************************************)
MatchesOf(snapshot, label) == {i \in DOMAIN snapshot : LabelMatches(snapshot[i], label)}
RecordOfCall ==
    FileState(call.path, call.hash, call.size, call.drive_uuid, call.target_path,
              call.category)
C33_RecordBeforeUnpark ==
    [][ pc = "copying"
        => /\ PendingRecords(db', call.path) # PendingRecords(db, call.path)
                => get_file_state(db', call.path) = RecordOfCall
           /\ (ret'.op = "sync_file" /\ ret'.result.tag = "Synced")
                => get_file_state(db', call.path) = RecordOfCall ]_vars

\* sync_file has returned Synced and written the FileRecord, the removal of
\* the path's PendingRecord having failed.
C33_Witness ==
    /\ ret.op = "sync_file"
    /\ ret.result.tag = "Synced"
    /\ ret.path \in obs.copied
    /\ PendingRecords(obs.db0, ret.path) # {}
    /\ PendingRecords(db, ret.path) # {}
    /\ get_file_state(db, ret.path).kind = "file"
    /\ get_file_state(db, ret.path).target_path = ret.result.arg

(***************************************************************************)
(* C34.  When the copy has succeeded and save_file_state fails, sync_file  *)
(* returns the error with the path's PendingRecord and the FileRecords as  *)
(* the call found them.  (After a copy was begun, the store's error can    *)
(* only be that of save_file_state.)                                       *)
(***************************************************************************)
C34_FailedSaveLeavesStore ==
    (ret.op = "sync_file" /\ ret.result.tag = "Err:State" /\ ret.path \in obs.copied)
    => /\ PendingRecords(db, ret.path) = PendingRecords(obs.db0, ret.path)
       /\ FileRecordsIn(db) = FileRecordsIn(obs.db0)

(***************************************************************************)
(* C35.  process_pending_syncs ends, and handles each pending record it    *)
(* listed at its start once, in the order of the listing: its log holds    *)
(* one line per listed record, also for a record sync_file has written     *)
(* again during the call because the disk was away.                        *)
(***************************************************************************)
ListedAtStart == get_pending_syncs(obs.db0, ret.drive_uuid).value
C35_DrainOncePerListedRecord ==
    /\ []( (ret.op = "process_pending_syncs" /\ ret.result.tag = "Ok")
           => /\ Len(ret.log) = Len(ListedAtStart)
              /\ \A i \in DOMAIN ret.log : ret.log[i].path = ListedAtStart[i].source_path )
    /\ (op = "process_pending_syncs") ~> (op = "idle")

\* A drain has ended with the disk away: the record it handled is in the
\* store again and was handled once.
C35_Witness ==
    /\ ret.op = "process_pending_syncs"
    /\ ret.result.tag = "Ok"
    /\ Len(ret.log) = 2
    /\ ret.log[1].path # ret.log[2].path
    /\ \A i \in DOMAIN ret.log : PendingRecords(db, ret.log[i].path) # {}
    /\ \A i \in DOMAIN ret.log : ret.log[i].level = "info"
    /\ PendingPaths(db, ret.drive_uuid) = PendingPaths(obs.db0, ret.drive_uuid)

(***************************************************************************)
(* C36.  process_pending_syncs of a drive touches only the records of the  *)
(* paths that had a pending record for that drive when the call began:     *)
(* every other key of the store, the pending records of another drive and  *)
(* the file records of other paths among them, holds after the call what   *)
(* it held before.                                                         *)
(***************************************************************************)
KeysOfListed(store, drive_uuid) ==
    UNION {{file_key(store[k].source_path), pending_key(store[k].source_path)} :
             k \in {k \in DOMAIN store : /\ store[k].kind = "pending"
                                         /\ store[k].target_drive = drive_uuid}}
C36_DrainTouchesListedOnly ==
    (ret.op = "process_pending_syncs" /\ ret.result.tag = "Ok")
    => \A k \in (DOMAIN db \cup DOMAIN obs.db0) \ KeysOfListed(obs.db0, ret.drive_uuid) :
         /\ k \in DOMAIN db
         /\ k \in DOMAIN obs.db0
         /\ db[k] = obs.db0[k]

\* The drain of the first drive has synced its file; the pending record of the
\* other drive, whose disk is attached as well, is still in the store.
C36_Witness ==
    /\ ret.op = "process_pending_syncs"
    /\ ret.result.tag = "Ok"
    /\ ret.drive_uuid = DriveImg
    /\ ret.count = 1
    /\ ~obs.disks
    /\ {DiskImg, DiskVid} \subseteq live
    /\ Fresh(db, P_jpg)
    /\ PendingRecords(obs.db0, P_mp4) # {}
    /\ PendingRecords(db, P_mp4) = PendingRecords(obs.db0, P_mp4)

(***************************************************************************)
(* C37.  A sync_file that returns Pending for a file that already had a    *)
(* pending record, the file left alone during the call, leaves one pending *)
(* record for the path, whose hash and size are those of the file's        *)
(* content now, and leaves the path's file record, if any, as it was.      *)
(***************************************************************************)
C37_PendingOverwritten ==
    \A p \in Paths :
        ( /\ ret.op = "sync_file" /\ ret.path = p
          /\ ret.result.tag = "Pending"
          /\ p \notin obs.files
          /\ PendingRecords(obs.db0, p) # {} )
        => /\ PendingRecords(db, p) = {pending_key(p)}
           /\ db[pending_key(p)].hash = calculate_file_hash(content[p])
           /\ db[pending_key(p)].size = FileSize(content[p])
           /\ get_file_state(db, p) = get_file_state(obs.db0, p)

\* The file was queued, then changed and given to sync_file again with the disk
\* still away: the pending record now carries the hash of the latest content.
C37_Witness ==
    /\ ret.op = "sync_file" /\ ret.path = P_jpg
    /\ ret.result.tag = "Pending"
    /\ P_jpg \notin obs.files
    /\ PendingRecords(obs.db0, P_jpg) = {pending_key(P_jpg)}
    /\ obs.db0[pending_key(P_jpg)].hash # calculate_file_hash(content[P_jpg])
    /\ db[pending_key(P_jpg)].hash = calculate_file_hash(content[P_jpg])
    /\ db[pending_key(P_jpg)].size = FileSize(content[P_jpg])
    /\ Unreachable(DriveImg)

(***************************************************************************)
(* C38.  In cmd_run a Removed event starts no operation and changes        *)
(* nothing: the step that takes it from the channel leaves the store, the  *)
(* engine and the destinations as they were.  Once a file is gone and the  *)
(* run loop holds no further event for it, its file record stays, and its  *)
(* pending record is taken away only within the sweep's drain of the       *)
(* record's drive.                                                         *)
(***************************************************************************)
EventsHandled(p) ==
    /\ \A i \in DOMAIN feed.raw : feed.raw[i].path # p
    /\ \A i \in DOMAIN feed.chan : feed.chan[i].path # p
    /\ run.event.path # p
C38_RemovedEventChangesNothing ==
    [][ /\ ( /\ feed.chan # <<>>
             /\ Head(feed.chan).kind = "Removed"
             /\ feed'.chan = Tail(feed.chan) )
            => /\ db' = db
               /\ dest' = dest
               /\ <<op', pc', call', batch'>> = <<op, pc, call, batch>>
               /\ run' = run
        /\ \A p \in VolatilePaths :
            (content[p] = Absent /\ EventsHandled(p))
            => /\ FileRecords(db, p) \subseteq FileRecords(db', p)
               /\ (PendingRecords(db, p) # {} /\ PendingRecords(db', p) = {})
                    => /\ op = "check_and_sync_connected_drives"
                       /\ batch.drive_uuid = DriveOf(p) ]_vars

\* The file was queued and then removed; the run loop has taken the Removed
\* event, and the pending record is still in the store.
C38_Witness ==
    /\ content[P_jpg] = Absent
    /\ EventsHandled(P_jpg)
    /\ feed.emitted = MaxEvents
    /\ run.events = "recv"
    /\ pc = "idle"
    /\ PendingRecords(db, P_jpg) # {}

(***************************************************************************)
(* C39.  In cmd_run an error of a sweep or of an event's sync_file does    *)
(* not end the loop that met it: after a sweep that failed the periodic    *)
(* task begins another sweep; after a sync_file that failed, the run loop  *)
(* calls sync_file for the next change event in its queue; and the lock    *)
(* is free again and again, each task giving it back when its call ends.   *)
(***************************************************************************)
ChangeQueued ==
    \/ \E i \in DOMAIN feed.raw : feed.raw[i].kind \in {"Create", "Modify"}
    \/ \E i \in DOMAIN feed.chan : feed.chan[i].kind \in {"Created", "Modified"}
C39_ErrorsDoNotStopTheLoop ==
    /\ (ret.op = "check_and_sync_connected_drives" /\ is_err(ret.result))
          ~> (op = "check_and_sync_connected_drives" /\ pc = "sweep")
    /\ (ret.op = "sync_file" /\ is_err(ret.result) /\ run.events = "call" /\ ChangeQueued)
          ~> (op = "sync_file" /\ pc = "start" /\ run.events = "call")
    /\ []<>(run.mutex = "free")

\* A sweep has just failed on the store, still holding the lock for which the
\* run loop waits with a change event in hand.
C39_Witness ==
    /\ ret.op = "check_and_sync_connected_drives"
    /\ ret.result.tag = "Err:State"
    /\ run.sweep = "call"
    /\ run.mutex = "sweep"
    /\ run.events = "lock"
    /\ run.event.kind \in {"Created", "Modified"}

====
